---- MODULE Spec2Model ----
(***************************************************************************)
(* ShareHound (Go): the concurrent share-crawling engine and its graph     *)
(* building pipeline.                                                      *)
(*                                                                         *)
(*   Spec      the scheduler of cmd/sharehound/main.go run() and the       *)
(*             control flow of worker.ProcessTarget with its share         *)
(*             sub-tasks, statistics and the checkpoint processed set.     *)
(***************************************************************************)
EXTENDS Integers, Sequences, FiniteSets, Bags, TLC

(***************************************************************************)
(* Bounds of the model.                                                    *)
(***************************************************************************)
NumTargets == 2
Threads == 2
MaxShares == 2
MaxWorkersPerHost == 1
HostTimeout == 1
GlobalMaxWorkers == 1

Targets == 1..NumTargets

VARIABLES
    \* ---- scheduler (main.go run) ----
    schedPc,            \* "filter" | "loop" | "wait" | "done"
    targetsToProcess,   \* the filtered input sequence
    idx,                \* position of the range loop in targetsToProcess
    stopChan,           \* TRUE once close(stopChan) has run
    semaphore,          \* number of tokens in the host semaphore channel
    threads,            \* the --threads value, the capacity of that channel
    \* ---- checkpoint manager ----
    enabled,            \* Manager.enabled
    processedTargets,   \* Manager.processedTargets
    saveChan,           \* number of pending save requests (capacity 1)
    \* ---- host workers (worker.ProcessTarget), one per target ----
    wpc,                \* position of each host worker
    timeoutFlag,        \* the per-host atomic timeoutFlag
    semCancelled,       \* TRUE once semCancel() has run for the host
    hostSemCur,         \* tokens held of the per-host weighted semaphore
    spc,                \* position of each share sub-task
    totalShareCount,
    skippedSharesCount,
    results,            \* the shared collector.WorkerResults
    \* ---- rights derivation (collector.Collect*Rights) ----
    rOp,                \* "none" | "share" | "ntfs": the collector that ran
    rShareSD,           \* answer to GetShareSecurityDescriptor
    rRootSD,            \* answer to GetShareRootSecurityDescriptor
    rFileSD,            \* answer to GetFileSecurityDescriptor
    rRights,            \* the graph.ShareRights returned
    \* ---- share sub-tasks of one host building the graph ----
    peerDepth,          \* depth of the directory tree the peer exports
    gHostPc,            \* "run" | "done": the host worker of the sub-tasks
    gpc,                \* position of each share sub-task
    gTimeout,           \* the host's timeoutFlag
    gSem,               \* tokens held of the per-host semaphore
    ogc,                \* the OpenGraphContext of each share sub-task
    frames,             \* the collectContentsAtDepth calls of each sub-task
    og,                 \* the OpenGraph store
    cpFile,             \* the checkpoint file
    resumes,            \* number of restarts with --resume
    \* ---- one host worker with its pool, sessions and deadline ----
    tpc,                \* position of ProcessTarget (0) and of each sub-task
    tSess,              \* the session each of them works with (0: none)
    tNext,              \* where each of them goes on after ReturnConnection
    tStall,             \* TRUE when the peer stalls its operation in flight
    tFlag,              \* timeoutFlag
    tTimer,             \* "armed" | "fired" | "closed" | "over" | "stopped"
    tTicker,            \* "nil" | "running" | "stopped": timeoutTicker
    tSem,               \* tokens held of hostSem
    poolMu,             \* holder of ConnectionPool.mu (Free: nobody)
    connections,        \* ConnectionPool.connections[host]
    activeConnections,  \* ConnectionPool.activeConnections
    sConn,              \* per session, s.conn: "nil" | "open" | "dead"
    sLive,              \* per session, s.connected and s.session != nil
    sShare,             \* per session, s.share != nil
    sMu,                \* per session, s.mu is held
    \* ---- the checkpoint manager, its file and the process around it ----
    mainPc,             \* position of run(): "start" .. "done", "crashed"
    ckResume,           \* the --resume flag of this process
    ckRuns,             \* number of restarts after a kill
    ckInterval,         \* Manager.interval
    ckStop,             \* TRUE once close(m.stopChan) has run
    ckPc,               \* position of the task started by Manager.Start
    ckFinal,            \* TRUE when the save in progress is the final one
    ckSnapshot,         \* the copy of processedTargets taken by the save
    ckTmp,              \* the file at <path>.tmp
    ckPath,             \* the file at the checkpoint path
    ckCoalesced,        \* TriggerSave calls that found a request pending
    \* ---- the disk-backed graph store (graph.OpenGraph) and its callers ----
    stIDs,              \* g.nodeIDs
    stEdgeCount,        \* g.edgeCount
    stNodeFile,         \* the lines of the node file, buffered ones included
    stEdgeFile,         \* the lines of the edge file, buffered ones included
    stMu,               \* holder of g.mu (0: nobody)
    stPc,               \* position of each caller inside AddNode
    stArg,              \* the node id each caller passed to AddNode
    stArtifact,         \* the graph object of the exported file
    \* ---- two runs of one share sub-task on the same peer ----
    rnPc,               \* per run, "share" | "walk" | "done"
    rnTodo,             \* per run, the entries of contents the range loop has not visited
    rnNodes,            \* per run, the node records in the order of AddNode
    rnEdges,            \* per run, the edge records in the order of AddEdge
    \* ---- one rules.Evaluator with its program and context ----
    ruRules,            \* Evaluator.rules
    ruCtx,              \* Evaluator.context
    ruScope,            \* the scope of the last decision
    ruOut,              \* the last decision: "none" | "ALLOW" | "DENY"
    \* ---- host workers filling the graph store while checkpoints are saved ----
    snPc,               \* per target, "idle" | "run" | "returned" | "exited"
    snEmitted,          \* per target, the records its host worker has emitted
    snNodeBuf,          \* the node records in g.nodeBuf
    snEdgeBuf,          \* the edge records in g.edgeBuf
    snNodeFile,         \* the node records in the node file
    snEdgeFile,         \* the edge records in the edge file
    svPc,               \* position of saveCheckpoint
    svCp,               \* the Checkpoint being built
    svFile,             \* the checkpoint file
    snRuns,             \* number of restarts after a kill
    \* ---- one export of the graph to a file ----
    exFilename,         \* the filename passed to ExportToFile, a sequence of characters
    exPc,               \* "start" | "created" | "done"
    exZip,              \* TRUE when the output is a ZIP archive
    exEntries,          \* the names of the entries of the archive
    \* ---- statistics of one host worker (worker.go 175-299, contents.go 95-351) ----
    trInput,            \* the shares' contents and the rule decisions
    trHost,             \* position of ProcessTarget
    trTimeout,          \* timeoutFlag of the host
    trSem,              \* holders of hostSem
    trPc,               \* position of each share sub-task
    trStack,            \* frames of collectContentsAtDepth, per share
    trDepth,            \* depth argument of the pending call, per share
    trRet,              \* counts returned by the last call, per share
    trTotals,           \* the local totals of ProcessTarget (228-230)
    trResults,          \* collector.WorkerResults
    trFlushed           \* files and directories added to the graph

schedVars == <<schedPc, targetsToProcess, idx, stopChan, semaphore, threads>>
cpVars == <<enabled, processedTargets, saveChan>>
workerVars == <<wpc, timeoutFlag, semCancelled, hostSemCur, spc,
                totalShareCount, skippedSharesCount, results>>
rightsVars == <<rOp, rShareSD, rRootSD, rFileSD, rRights>>
graphVars == <<peerDepth, gHostPc, gpc, gTimeout, gSem, ogc, frames, og,
               cpFile, resumes>>
threadVars == <<tpc, tSess, tNext, tStall>>
timerVars == <<tFlag, tTimer, tTicker>>
poolVars == <<poolMu, connections, activeConnections>>
sessVars == <<sConn, sLive, sShare, sMu>>
timeoutVars == <<threadVars, timerVars, tSem, poolVars, sessVars>>
ckVars == <<mainPc, ckResume, ckRuns, ckInterval, ckStop, ckPc, ckFinal,
            ckSnapshot, ckTmp, ckPath, ckCoalesced>>
storeVars == <<stIDs, stEdgeCount, stNodeFile, stEdgeFile, stMu, stPc, stArg, stArtifact>>
runVars == <<rnPc, rnTodo, rnNodes, rnEdges>>
rulesVars == <<ruRules, ruCtx, ruScope, ruOut>>
snapVars == <<snPc, snEmitted, snNodeBuf, snEdgeBuf, snNodeFile, snEdgeFile, svPc, svCp, svFile, snRuns>>
exportVars == <<exFilename, exPc, exZip, exEntries>>
traverseVars == <<trInput, trHost, trTimeout, trSem, trPc, trStack, trDepth, trRet, trTotals, trResults, trFlushed>>
vars == <<schedVars, cpVars, workerVars, rightsVars, graphVars, timeoutVars,
         ckVars,
         storeVars,
         runVars,
         rulesVars,
         snapVars,
         exportVars,
         traverseVars>>

\* what the scheduler specification never touches
otherVars == <<threads, rightsVars, graphVars, timeoutVars,
    ckVars,
    storeVars,
    runVars,
    rulesVars,
    snapVars,
    exportVars,
    traverseVars>>

(***************************************************************************)
(* Security descriptors and the rights derived from them.                  *)
(*                                                                         *)
(* An access mask is the set of the bit positions that are set in the      *)
(* 32-bit word (bit 31 is 0x80000000), so "mask & flag != 0" is membership *)
(* and the number of set bits is the cardinality.                          *)
(***************************************************************************)
MaxAces == 2

ACCESS_ALLOWED_ACE_TYPE == 0
ACCESS_DENIED_ACE_TYPE == 1
ACCESS_ALLOWED_OBJECT_ACE_TYPE == 5

\* ParseACE reads the mask and the SID of these types only
StandardAceTypes == {0, 1, 2, 3}

\* ShareRightsMapping: edge kind |-> bit position of its flag
ShareRightsMapping ==
    [CanDsCreateChild |-> 0, CanDsDeleteChild |-> 1, CanDsListContents |-> 2,
     CanDsWriteExtendedProperties |-> 3, CanDsReadProperty |-> 4,
     CanDsWriteProperty |-> 5, CanDsDeleteTree |-> 6, CanDsListObject |-> 7,
     CanDsControlAccess |-> 8, CanDelete |-> 16, CanReadControl |-> 17,
     CanWriteDacl |-> 18, CanWriteOwner |-> 19, CanGenericAll |-> 28,
     CanGenericExecute |-> 29, CanGenericWrite |-> 30, CanGenericRead |-> 31]

\* NTFSRightsMapping: edge kind |-> bit position of its flag
NTFSRightsMapping ==
    [CanNTFSGenericRead |-> 31, CanNTFSGenericWrite |-> 30,
     CanNTFSGenericExecute |-> 29, CanNTFSGenericAll |-> 28,
     CanNTFSMaximumAllowed |-> 25, CanNTFSAccessSystemSecurity |-> 24,
     CanNTFSSynchronize |-> 20, CanNTFSWriteOwner |-> 19,
     CanNTFSWriteDacl |-> 18, CanNTFSReadControl |-> 17, CanNTFSDelete |-> 16]

GetShareRightsForMask(mask) ==
    {edgeKind \in DOMAIN ShareRightsMapping : ShareRightsMapping[edgeKind] \in mask}

GetNTFSRightsForMask(mask) ==
    {edgeKind \in DOMAIN NTFSRightsMapping : NTFSRightsMapping[edgeKind] \in mask}

\* ACE.IsAccessAllowed
IsAccessAllowed(ace) == ace.AceType = ACCESS_ALLOWED_ACE_TYPE

\* an ACE whose SID did not parse has SID = NoSID (ace.SID == nil)
NoSID == "nil"
SIDs == {NoSID, "S-1-1-0", "S-1-5-32-544"}

\* the masks of the model: none, READ_CONTROL, and
\* DS_CREATE_CHILD | READ_CONTROL | SYNCHRONIZE
Masks == {{}, {17}, {0, 17, 20}}

\* the ACEs ParseACE can return over these types, SIDs and masks: an ACE of
\* a non-standard type keeps the zero mask and the nil SID
ParsedACEs ==
    {ace \in [AceType : {ACCESS_ALLOWED_ACE_TYPE, ACCESS_DENIED_ACE_TYPE,
                         ACCESS_ALLOWED_OBJECT_ACE_TYPE},
              SID : SIDs, Mask : Masks] :
        ace.AceType \notin StandardAceTypes => (ace.Mask = {} /\ ace.SID = NoSID)}

\* what a security-descriptor query can give: an error or no bytes, bytes
\* that do not parse, a descriptor without DACL, a descriptor with a DACL
Unavailable == [st |-> "unavailable", Aces |-> <<>>]
Unparsable == [st |-> "unparsable", Aces |-> <<>>]
NoDacl == [st |-> "nodacl", Aces |-> <<>>]
WithDacl(aces) == [st |-> "dacl", Aces |-> aces]

SDChoices ==
    {Unavailable, Unparsable, NoDacl}
    \cup {WithDacl(aces) : aces \in UNION {[1..n -> ParsedACEs] : n \in 0..MaxAces}}

\* "rights[sid] = append(rights[sid], edgeKinds...)": a ShareRights value is
\* the bag of its <<sid, edge kind>> entries
AppendRights(rights, sid, edgeKinds) ==
    rights (+) SetToBag({<<sid, edgeKind>> : edgeKind \in edgeKinds})

\* share_rights.go 36, 75: the table used by CollectShareRights; the
\* usedFallback flag is assigned to the blank identifier
ShareLevelKinds(usedFallback, mask) == GetShareRightsForMask(mask)

RECURSIVE ShareAcesLoop(_, _, _)
\* share_rights.go 59-79: the loop over sd.Dacl.Aces
ShareAcesLoop(aces, usedFallback, rights) ==
    IF aces = <<>> THEN rights
    ELSE LET ace == Head(aces)
         IN IF ~IsAccessAllowed(ace) \/ ace.SID = NoSID
            THEN ShareAcesLoop(Tail(aces), usedFallback, rights)
            ELSE ShareAcesLoop(Tail(aces), usedFallback,
                     AppendRights(rights, ace.SID,
                                  ShareLevelKinds(usedFallback, ace.Mask)))

\* collector.CollectShareRights
CollectShareRights(shareSD, rootSD) ==
    LET usedFallback == shareSD.st = "unavailable"
        sd == IF usedFallback THEN rootSD ELSE shareSD
    IN IF sd.st # "dacl" THEN EmptyBag
       ELSE ShareAcesLoop(sd.Aces, usedFallback, EmptyBag)

RECURSIVE NTFSAcesLoop(_, _)
\* ntfs_rights.go 36-51: the loop over sd.Dacl.Aces
NTFSAcesLoop(aces, rights) ==
    IF aces = <<>> THEN rights
    ELSE LET ace == Head(aces)
         IN IF ace.SID = NoSID
            THEN NTFSAcesLoop(Tail(aces), rights)
            ELSE NTFSAcesLoop(Tail(aces),
                     AppendRights(rights, ace.SID, GetNTFSRightsForMask(ace.Mask)))

\* collector.CollectNTFSRights
CollectNTFSRights(fileSD) ==
    IF fileSD.st # "dacl" THEN EmptyBag ELSE NTFSAcesLoop(fileSD.Aces, EmptyBag)

\* no rights collector has run
RightsIdle ==
    /\ rOp = "none"
    /\ rShareSD = Unavailable
    /\ rRootSD = Unavailable
    /\ rFileSD = Unavailable
    /\ rRights = EmptyBag

(***************************************************************************)
(* The graph store and the graph-building context.                         *)
(*                                                                         *)
(* Node ids and edge endpoint values are strings in the program; here a    *)
(* string value is the record [k, s, p]: a plain string (host name, SID),  *)
(* the share id "\\host\share\", "DIR:" + UNC path or "FILE:" + UNC path.  *)
(***************************************************************************)
TreeDepth == 2
MaxResumes == 1

\* opts.Depth, the --depth flag: 0 is unlimited
Depth == 0

Str(x) == [k |-> "str", s |-> x, p |-> <<>>]
NilNode == [k |-> "nil", s |-> "", p |-> <<>>]

\* the host of the sub-tasks, and strings.ToUpper on it
HostName == "srv1"
ToUpper(x) == IF x = "srv1" THEN "SRV1" ELSE x

\* the shares ListShares has returned for the host
GShares == {"docs", "tmp"}

\* worker.go 366, 371: the host node id and the share node id
HostNode == Str(HostName)
ShareNode(shareName) == [k |-> "share", s |-> shareName, p |-> <<>>]

\* contents.go 179, 209, 274: "DIR:" + uncPath and "FILE:" + uncPath
DirNode(shareName, fullPath) == [k |-> "DIR", s |-> shareName, p |-> fullPath]
FileNode(shareName, fullPath) == [k |-> "FILE", s |-> shareName, p |-> fullPath]

\* ---- the peer --------------------------------------------------------
\* Share "docs" exports a tree of the depth peerDepth in which a directory
\* may hold the directory "d" and the file "f"; share "tmp" is empty and has
\* no share-level descriptor.  The peer answers every query.
PeerNames == {"d", "f"}
IsDir(name) == name = "d"

PeerChildren(shareName, path) ==
    IF shareName = "docs" /\ Len(path) < peerDepth THEN PeerNames ELSE {}

AllowEveryone == [AceType |-> 0, SID |-> "S-1-1-0", Mask |-> {0, 17, 20}]
DenyAdmins == [AceType |-> 1, SID |-> "S-1-5-32-544", Mask |-> {17}]
AllowAdmins == [AceType |-> 0, SID |-> "S-1-5-32-544", Mask |-> {17}]

PeerFileSD(shareName, fullPath) == WithDacl(<<AllowEveryone, DenyAdmins>>)
PeerShareSD(shareName) ==
    IF shareName = "docs" THEN WithDacl(<<AllowEveryone>>) ELSE Unavailable
PeerRootSD(shareName) == WithDacl(<<AllowAdmins>>)

\* ---- graph.OpenGraph -------------------------------------------------
NewOpenGraph == [nodeIDs |-> {}, edges |-> EmptyBag]

\* OpenGraph.AddNode: deduplicated by id
AddNode(g, node) == [g EXCEPT !.nodeIDs = @ \cup {node}]

\* OpenGraph.AddEdge: appended, never deduplicated
AddEdge(g, edge) == [g EXCEPT !.edges = @ (+) SetToBag({edge})]

\* graph.NewEdge: no match_by on either endpoint
NewEdge(startNodeID, endNodeID, kind) ==
    [start |-> startNodeID, end |-> endNodeID, kind |-> kind,
     startMatchBy |-> "", endMatchBy |-> ""]

\* ---- graph.OpenGraphContext ------------------------------------------
NewOpenGraphContext ==
    [host |-> NilNode, share |-> NilNode, shareRights |-> EmptyBag,
     path |-> <<>>, element |-> NilNode, elementRights |-> EmptyBag,
     hostEdgeEmitted |-> FALSE, hostShareEmitted |-> FALSE,
     emittedPathNodes |-> {}]

PushPath(c, node, rights) ==
    [c EXCEPT !.path = Append(@, [Node |-> node, Rights |-> rights])]

PopPath(c) ==
    IF c.path = <<>> THEN c
    ELSE [c EXCEPT !.path = SubSeq(@, 1, Len(@) - 1)]

ClearElement(c) == [c EXCEPT !.element = NilNode, !.elementRights = EmptyBag]

\* GetStringPathFromRoot: the names of the path entries
GetStringPathFromRoot(c) ==
    [i \in 1..Len(c.path) |-> c.path[i].Node.p[Len(c.path[i].Node.p)]]

\* AddRightsToGraph: one edge from the SID to the element per entry of the
\* rights, with no match_by
AddRightsToGraph(g, elementID, rights) ==
    LET edgeOf(r) == NewEdge(Str(r[1]), elementID, r[2])
        added == [e \in {edgeOf(r) : r \in BagToSet(rights)} |->
                     rights[<<e.start.s, e.kind>>]]
    IN [g EXCEPT !.edges = @ (+) added]

\* AddPathToGraph 554-570: the host node and the HostsNetworkShare edge
EmitHost(c, g) ==
    IF c.hostEdgeEmitted THEN g
    ELSE AddEdge(AddNode(g, c.host),
                 [NewEdge(Str(ToUpper(c.host.s)), c.host, "HostsNetworkShare")
                     EXCEPT !.startMatchBy = "name", !.endMatchBy = "id"])

\* AddPathToGraph 580-598: the share node, its rights, HasNetworkShare
EmitShare(c, g) ==
    IF c.hostShareEmitted THEN g
    ELSE AddEdge(AddRightsToGraph(AddNode(g, c.share), c.share, c.shareRights),
                 NewEdge(c.host, c.share, "HasNetworkShare"))

RECURSIVE EmitPath(_, _, _, _)
\* AddPathToGraph 604-621: the loop over c.path
EmitPath(entries, parentID, emitted, g) ==
    IF entries = <<>> THEN [parentID |-> parentID, emitted |-> emitted, g |-> g]
    ELSE LET entry == Head(entries)
         IN IF entry.Node \in emitted
            THEN EmitPath(Tail(entries), entry.Node, emitted, g)
            ELSE EmitPath(Tail(entries), entry.Node, emitted \cup {entry.Node},
                     AddEdge(AddRightsToGraph(AddNode(g, entry.Node),
                                              entry.Node, entry.Rights),
                             NewEdge(parentID, entry.Node, "Contains")))

\* a variant of EmitElement that writes the edges of the element and leaves
\* out its node
EmitElementEdgesOnly(c, parentID, g) ==
    IF c.element = NilNode THEN g
    ELSE AddEdge(AddRightsToGraph(g, c.element, c.elementRights),
                 NewEdge(parentID, c.element, "Contains"))

\* AddPathToGraph 623-637: the element node, its rights and its Contains edge
EmitElement(c, parentID, g) ==
    IF c.element = NilNode THEN g
    ELSE AddEdge(AddRightsToGraph(AddNode(g, c.element), c.element,
                                  c.elementRights),
                 NewEdge(parentID, c.element, "Contains"))

\* OpenGraphContext.AddPathToGraph: the context and the store afterwards
AddPathToGraph(c, g) ==
    IF c.host = NilNode THEN [c |-> c, g |-> g]
    ELSE LET c1 == [c EXCEPT !.hostEdgeEmitted = TRUE]
             g1 == EmitHost(c, g)
         IN IF c.share = NilNode THEN [c |-> c1, g |-> g1]
            ELSE LET g2 == EmitShare(c, g1)
                     walk == EmitPath(c.path, c.share, c.emittedPathNodes, g2)
                     c2 == [c1 EXCEPT !.hostShareEmitted = TRUE,
                                      !.emittedPathNodes = walk.emitted]
                 IN [c |-> c2, g |-> EmitElement(c, walk.parentID, walk.g)]

\* a call of collectContentsAtDepth: its depth, where it stands, the entries
\* of the listing not yet visited and dirsToExplore
NewFrame(depth) ==
    [depth |-> depth, phase |-> "enter", contents |-> {}, dirsToExplore |-> <<>>]

NoCheckpoint ==
    [exists |-> FALSE, processed |-> {}, nodeIDs |-> {}, edges |-> EmptyBag]

\* the host whose shares are crawled is the first target
GHost == 1

\* the state of the sub-tasks right after ProcessTarget has started them
GraphStart ==
    /\ gHostPc = "run"
    /\ gpc = [s \in GShares |-> "waiting"]
    /\ gTimeout = FALSE
    /\ gSem = 0
    /\ ogc = [s \in GShares |-> NewOpenGraphContext]
    /\ frames = [s \in GShares |-> <<>>]

\* no share sub-task exists
GraphIdle ==
    /\ peerDepth = 0
    /\ gHostPc = "done"
    /\ gpc = [s \in GShares |-> "done"]
    /\ gTimeout = FALSE
    /\ gSem = 0
    /\ ogc = [s \in GShares |-> NewOpenGraphContext]
    /\ frames = [s \in GShares |-> <<>>]
    /\ og = NewOpenGraph
    /\ cpFile = NoCheckpoint
    /\ resumes = 0

(***************************************************************************)
(* The host deadline: ProcessTarget (thread 0) and its share sub-tasks     *)
(* (threads 1..SubTasks), the ConnectionPool, the SMB sessions and the     *)
(* AfterFunc timer with its ticker.                                        *)
(***************************************************************************)
SubTasks == 1
MaxSessions == 2

Threads0 == 0..SubTasks
Sessions == 1..MaxSessions
Free == -1

\* the state before ProcessTarget runs
TimeoutIdle ==
    /\ tpc = [t \in Threads0 |-> "idle"]
    /\ tSess = [t \in Threads0 |-> 0]
    /\ tNext = [t \in Threads0 |-> "idle"]
    /\ tStall = [t \in Threads0 |-> FALSE]
    /\ tFlag = FALSE
    /\ tTimer = "stopped"
    /\ tTicker = "nil"
    /\ tSem = 0
    /\ poolMu = Free
    /\ connections = <<>>
    /\ activeConnections = {}
    /\ sConn = [x \in Sessions |-> "nil"]
    /\ sLive = [x \in Sessions |-> FALSE]
    /\ sShare = [x \in Sessions |-> FALSE]
    /\ sMu = [x \in Sessions |-> FALSE]

(***************************************************************************)
(* The checkpoint file.  A file is absent or holds what has been written   *)
(* to it: complete is FALSE between the truncation of os.WriteFile and the *)
(* end of its write.                                                       *)
(***************************************************************************)
MaxRestarts == 1
MaxInterval == 1
MaxCoalesced == 2

NoFile == [exists |-> FALSE, complete |-> FALSE, processed |-> {}]

\* os.WriteFile: the file is created or truncated first
Truncated == [exists |-> TRUE, complete |-> FALSE, processed |-> {}]

\* json.MarshalIndent of the Checkpoint, once written in full
Written(processed) == [exists |-> TRUE, complete |-> TRUE, processed |-> processed]

\* the state before run() creates the manager
CkIdle ==
    /\ mainPc = "idle"
    /\ ckResume = FALSE
    /\ ckRuns = 0
    /\ ckInterval = 0
    /\ ckStop = FALSE
    /\ ckPc = "none"
    /\ ckFinal = FALSE
    /\ ckSnapshot = {}
    /\ ckCoalesced = 0
    /\ ckTmp = NoFile
    /\ ckPath = NoFile

(***************************************************************************)
(* The disk-backed store.  A node is named by its id and every edge is the *)
(* same record: the store never looks into either.  The lines a            *)
(* bufio.Writer still holds count as lines of its file, since every reader *)
(* of the files flushes first (opengraph.go 136, 207-208, 410-411).        *)
(***************************************************************************)
MaxIds == 2
MaxLines == 3
StoreWorkers == 2
MaxRestore == 2

StIds == 1..MaxIds
StCallers == 1..StoreWorkers
StEdge == "edge"
NoArtifact == [written |-> FALSE, nodes |-> <<>>, edges |-> <<>>]

\* the sequences of length at most n over the set S
SeqsUpTo(S, n) == UNION {[1..k -> S] : k \in 0..n}

\* the state before NewOpenGraph
StoreIdle ==
    /\ stIDs = {}
    /\ stEdgeCount = 0
    /\ stNodeFile = <<>>
    /\ stEdgeFile = <<>>
    /\ stMu = 0
    /\ stPc = [w \in StCallers |-> "idle"]
    /\ stArg = [w \in StCallers |-> 0]
    /\ stArtifact = NoArtifact

(***************************************************************************)
(* Runs compared with each other: the same target, rules, credentials and  *)
(* peer for each of them.                                                  *)
(***************************************************************************)
NumRuns == 2
Runs == 1..NumRuns

\* no run has started
RunsIdle ==
    /\ rnPc = [r \in Runs |-> "idle"]
    /\ rnTodo = [r \in Runs |-> {}]
    /\ rnNodes = [r \in Runs |-> <<>>]
    /\ rnEdges = [r \in Runs |-> <<>>]

(***************************************************************************)
(* ShareQL rules.  A value is what a Go interface{} holds in the rules     *)
(* package: nothing, a string, an int / int64 or a float64 (here always a  *)
(* whole number).                                                          *)
(***************************************************************************)
MaxRules == 2

NilValue == [t |-> "nil", n |-> 0, s |-> ""]
StringValue(s) == [t |-> "string", n |-> 0, s |-> s]
IntValue(n) == [t |-> "int", n |-> n, s |-> ""]
FloatValue(n) == [t |-> "float64", n |-> n, s |-> ""]
\* a []interface{} of parseValue: the items of a bracketed list
ListValue(items) == [t |-> "list", n |-> 0, s |-> "", items |-> items]

\* string(rune(n)): one code point, U+FFFD for what is no valid code point
RuneOf(n) == IF n < 0 \/ n > 1114111 \/ n \in 55296..57343 THEN 65533 ELSE n

\* simple case folding of the strings and code points of the model
Lower(s) == IF s = "PUBLIC" THEN "public" ELSE s
FoldRune(r) == IF r \in 65..90 THEN r + 32 ELSE r

\* rule.go 180-198 toString
toString(v) ==
    IF v.t = "string" THEN [runes |-> FALSE, s |-> v.s, r |-> 0]
    ELSE IF v.t \in {"int", "float64"} THEN [runes |-> TRUE, s |-> "", r |-> RuneOf(v.n)]
    ELSE [runes |-> FALSE, s |-> "", r |-> 0]

\* strings.EqualFold; no string of the model is a single character
EqualFold(a, b) ==
    IF a.runes /\ b.runes THEN FoldRune(a.r) = FoldRune(b.r)
    ELSE IF ~a.runes /\ ~b.runes THEN Lower(a.s) = Lower(b.s)
    ELSE FALSE

\* rule.go 200-218 toNumber: Read into an empty buffer fails on the empty
\* string only, and num is never assigned
toNumber(v) ==
    IF v.t \in {"int", "float64"} THEN [num |-> v.n, ok |-> TRUE]
    ELSE IF v.t = "string" THEN [num |-> 0, ok |-> v.s # ""]
    ELSE [num |-> 0, ok |-> FALSE]

\* rule.go 121-126
compareEqual(a, b) == EqualFold(toString(a), toString(b))

\* rule.go 128-135
compareLess(a, b) ==
    toNumber(a).ok /\ toNumber(b).ok /\ toNumber(a).num < toNumber(b).num

\* rule.go 137-144
compareGreater(a, b) ==
    toNumber(a).ok /\ toNumber(b).ok /\ toNumber(a).num > toNumber(b).num

\* rule.go 146-166
compareIn(value, list) ==
    /\ list.t = "list"
    /\ \E i \in 1..Len(list.items) : compareEqual(value, list.items[i])

\* the objects of an EvaluationContext: nil or a RuleObject*
NoObject == [present |-> FALSE, Name |-> "", Size |-> 0]
RuleObject(name, size) == [present |-> TRUE, Name |-> name, Size |-> size]

\* part_000 17-65 GetFieldValue, for the fields the rules of the model use
GetFieldValue(ctx, field) ==
    IF field = "DEPTH" THEN IntValue(ctx.Depth)
    ELSE IF field = "SHARE.NAME" /\ ctx.Share.present THEN StringValue(ctx.Share.Name)
    ELSE IF field = "FILE.NAME" /\ ctx.File.present THEN StringValue(ctx.File.Name)
    ELSE IF field = "FILE.SIZE" /\ ctx.File.present THEN IntValue(ctx.File.Size)
    ELSE IF field = "DIR.NAME" /\ ctx.Directory.present THEN StringValue(ctx.Directory.Name)
    ELSE NilValue

\* conditions: AlwaysTrueCondition, FieldCondition, NotCondition
AlwaysTrueCondition ==
    [op |-> "true", Field |-> "", Comparator |-> "", Value |-> NilValue, Inner |-> <<>>]
FieldCondition(field, comparator, value) ==
    [op |-> "field", Field |-> field, Comparator |-> comparator, Value |-> value,
     Inner |-> <<>>]
NotCondition(inner) ==
    [op |-> "not", Field |-> "", Comparator |-> "", Value |-> NilValue, Inner |-> <<inner>>]

\* rule.go 54-81 FieldCondition.Evaluate, for the comparators of the model
EvaluateField(c, ctx) ==
    LET fieldValue == GetFieldValue(ctx, c.Field)
    IN IF c.Comparator = "=" THEN compareEqual(fieldValue, c.Value)
       ELSE IF c.Comparator = "!=" THEN ~compareEqual(fieldValue, c.Value)
       ELSE IF c.Comparator = "<" THEN compareLess(fieldValue, c.Value)
       ELSE IF c.Comparator = ">" THEN compareGreater(fieldValue, c.Value)
       ELSE IF c.Comparator = "<="
            THEN compareLess(fieldValue, c.Value) \/ compareEqual(fieldValue, c.Value)
       ELSE IF c.Comparator = ">="
            THEN compareGreater(fieldValue, c.Value) \/ compareEqual(fieldValue, c.Value)
       ELSE IF c.Comparator = "IN" THEN compareIn(fieldValue, c.Value)
       ELSE IF c.Comparator = "NOT IN" THEN ~compareIn(fieldValue, c.Value)
       ELSE FALSE

RECURSIVE Evaluate(_, _)
\* Condition.Evaluate: rule.go 43-45, 54-81, 88-90
Evaluate(c, ctx) ==
    IF c.op = "true" THEN TRUE
    ELSE IF c.op = "not" THEN ~Evaluate(c.Inner[1], ctx)
    ELSE EvaluateField(c, ctx)

\* parser.go 71-74 and 111-123: the Rule of a DEFAULT line and of an
\* ALLOW / DENY line
DefaultRule(behavior) ==
    [IsDefault |-> TRUE, DefaultBehavior |-> behavior, Action |-> "", Scope |-> "",
     Condition |-> AlwaysTrueCondition]
ActionRule(action, scope, condition) ==
    [IsDefault |-> FALSE, DefaultBehavior |-> "", Action |-> action, Scope |-> scope,
     Condition |-> condition]

RECURSIVE DefaultAllow(_)
\* part_000 137-143: the first DEFAULT rule, ALLOW without one
DefaultAllow(rules) ==
    IF rules = <<>> THEN TRUE
    ELSE IF Head(rules).IsDefault THEN Head(rules).DefaultBehavior = "ALLOW"
    ELSE DefaultAllow(Tail(rules))

RECURSIVE EvaluateRulesAnyScope(_, _, _, _)
\* the loop of evaluate without the scope test of lines 152-154
EvaluateRulesAnyScope(rules, scope, ctx, defaultAllow) ==
    IF rules = <<>> THEN defaultAllow
    ELSE LET rule == Head(rules)
         IN IF rule.IsDefault
            THEN EvaluateRulesAnyScope(Tail(rules), scope, ctx, defaultAllow)
            ELSE IF Evaluate(rule.Condition, ctx) THEN rule.Action = "ALLOW"
            ELSE EvaluateRulesAnyScope(Tail(rules), scope, ctx, defaultAllow)

RECURSIVE EvaluateRules(_, _, _, _)
\* part_000 146-162: the rules in order
EvaluateRules(rules, scope, ctx, defaultAllow) ==
    IF rules = <<>> THEN defaultAllow
    ELSE LET rule == Head(rules)
         IN IF rule.IsDefault
            THEN EvaluateRules(Tail(rules), scope, ctx, defaultAllow)
            ELSE IF rule.Scope # "" /\ rule.Scope # scope
            THEN EvaluateRules(Tail(rules), scope, ctx, defaultAllow)
            ELSE IF Evaluate(rule.Condition, ctx) THEN rule.Action = "ALLOW"
            ELSE EvaluateRules(Tail(rules), scope, ctx, defaultAllow)

\* the rules the programs of the model are made of
RulePool ==
    {DefaultRule("DENY"),
     DefaultRule("ALLOW"),
     ActionRule("ALLOW", "EXPLORATION", FieldCondition("SHARE.NAME", "=", StringValue("public"))),
     ActionRule("ALLOW", "PROCESSING", FieldCondition("FILE.SIZE", "<", FloatValue(1000000))),
     ActionRule("DENY", "EXPLORATION", FieldCondition("DEPTH", ">", FloatValue(2))),
     ActionRule("DENY", "", FieldCondition("FILE.NAME", "<", FloatValue(5))),
     ActionRule("DENY", "PROCESSING", FieldCondition("DEPTH", ">=", StringValue("deep"))),
     ActionRule("ALLOW", "", NotCondition(FieldCondition("DIR.NAME", "=", StringValue("tmp")))),
     ActionRule("ALLOW", "EXPLORATION", AlwaysTrueCondition)}

\* comparisons for programs of one rule: every comparator on a field of a
\* fact that can be absent, on an unknown field and on the integer fields
Comparisons ==
    {FieldCondition(f, c, v) :
        f \in {"FILE.NAME", "SHARE.OWNER"},
        c \in {"=", "<", ">", "<=", ">="},
        v \in {StringValue(""), StringValue("small.txt"), FloatValue(5)}}
    \cup {FieldCondition(f, c, v) :
        f \in {"FILE.NAME", "SHARE.OWNER"},
        c \in {"IN", "NOT IN"},
        v \in {ListValue(<<StringValue("")>>),
               ListValue(<<StringValue("small.txt"), StringValue("large.txt")>>)}}
    \cup {FieldCondition(f, c, FloatValue(k)) :
        f \in {"DEPTH", "FILE.SIZE"},
        c \in {"=", "!=", "<=", ">="},
        k \in {0, 1, 3, 500000, 3000000}}

\* evaluator_test.go 216-221: DEFAULT: DENY / ALLOW EXPLORATION IF
\* SHARE.NAME = 'public' / ALLOW PROCESSING IF FILE.SIZE < 1000000 /
\* DENY EXPLORATION IF DEPTH > 2
ComplexRules ==
    <<DefaultRule("DENY"),
      ActionRule("ALLOW", "EXPLORATION", FieldCondition("SHARE.NAME", "=", StringValue("public"))),
      ActionRule("ALLOW", "PROCESSING", FieldCondition("FILE.SIZE", "<", FloatValue(1000000))),
      ActionRule("DENY", "EXPLORATION", FieldCondition("DEPTH", ">", FloatValue(2)))>>

\* the objects the crawl hands to the evaluator
RuShares == {RuleObject("public", 0), RuleObject("PUBLIC", 0), RuleObject("private", 0)}
RuFiles == {RuleObject("small.txt", 500000), RuleObject("large.txt", 2000000)}
RuDirs == {RuleObject("test", 0), RuleObject("tmp", 0)}
RuDepths == {0, 1, 3}

\* part_000 74-79 NewEvaluator: an empty context
NewContext == [Share |-> NoObject, File |-> NoObject, Directory |-> NoObject, Depth |-> 0]

\* no evaluator yet
RulesIdle ==
    /\ ruRules = <<>>
    /\ ruCtx = NewContext
    /\ ruScope = ""
    /\ ruOut = "none"

(***************************************************************************)
(* Graph records of the host workers.  A record is <<target, k>>: the k-th *)
(* record the worker of the target emits; odd ones are nodes, even ones    *)
(* edges.                                                                  *)
(***************************************************************************)
MaxEmits == 2
MaxKills == 1

IsNodeRecord(r) == r[2] % 2 = 1

\* a Checkpoint: ProcessedTargets, GraphNodes, GraphEdges; "emitted" is no
\* part of the document: it keeps, for the targets of the processed set,
\* what their host workers had emitted
NoSavedCheckpoint ==
    [exists |-> FALSE, processed |-> {}, nodes |-> {}, edges |-> {},
     emitted |-> [t \in 1..NumTargets |-> {}]]

\* no scan yet
SnapIdle ==
    /\ snPc = [t \in Targets |-> "idle"]
    /\ snEmitted = [t \in Targets |-> {}]
    /\ snNodeBuf = {}
    /\ snEdgeBuf = {}
    /\ snNodeFile = {}
    /\ snEdgeFile = {}
    /\ svPc = "idle"
    /\ svCp = NoSavedCheckpoint
    /\ svFile = NoSavedCheckpoint
    /\ snRuns = 0

(***************************************************************************)
(* Export filenames: strings are sequences of characters.                  *)
(***************************************************************************)
DotZip == <<".", "z", "i", "p">>
DotJson == <<".", "j", "s", "o", "n">>

\* the directories, stems and extensions the filenames are made of
ExDirs == {<<>>, <<"d", "/">>, <<"d", ".", "z", "i", "p", "/">>}
ExStems == {<<"o">>, <<"o", ".", "j", "s", "o", "n">>, <<"o", ".", "J", "S", "O", "N">>,
            <<"o", ".", "z", "i", "p">>}
ExExtensions == {<<>>, DotZip, <<".", "Z", "I", "P">>, <<".", "Z", "i", "p">>, DotJson}
ExFilenames == {d \o st \o e : d \in ExDirs, st \in ExStems, e \in ExExtensions}

\* strings.ToLower on the characters of the model
LowerChar(c) ==
    IF c = "Z" THEN "z" ELSE IF c = "I" THEN "i" ELSE IF c = "P" THEN "p"
    ELSE IF c = "J" THEN "j" ELSE IF c = "S" THEN "s" ELSE IF c = "O" THEN "o"
    ELSE IF c = "N" THEN "n" ELSE c
ToLower(str) == [i \in 1..Len(str) |-> LowerChar(str[i])]

\* strings.HasSuffix
HasSuffix(str, suffix) ==
    /\ Len(str) >= Len(suffix)
    /\ SubSeq(str, Len(str) - Len(suffix) + 1, Len(str)) = suffix

\* strings.TrimSuffix
TrimSuffix(str, suffix) ==
    IF HasSuffix(str, suffix) THEN SubSeq(str, 1, Len(str) - Len(suffix)) ELSE str

\* filepath.Base of a path that ends in no separator
Base(path) ==
    LET seps == {i \in 1..Len(path) : path[i] = "/"}
    IN IF seps = {} THEN path
       ELSE SubSeq(path, (CHOOSE i \in seps : \A j \in seps : j <= i) + 1, Len(path))

\* opengraph.go 227: the test for a ZIP export
IsZipName(filename) == HasSuffix(ToLower(filename), DotZip)

\* opengraph.go 233-237: the name of the entry
JsonName(filename) ==
    LET jsonName == TrimSuffix(Base(filename), DotZip)
    IN IF HasSuffix(jsonName, DotJson) THEN jsonName ELSE jsonName \o DotJson

\* no export yet
ExportIdle ==
    /\ exFilename = <<>>
    /\ exPc = "start"
    /\ exZip = FALSE
    /\ exEntries = <<>>

(***************************************************************************)
(* Statistics of one host worker.  A share holds a chain of directories:   *)
(* the directory at level d holds one file when the share has files and    *)
(* one sub-directory when d is below the nesting of the share.  The rule   *)
(* decisions are a function of the kind of the entry.                      *)
(***************************************************************************)
NumTrShares == 2
MaxNest == 2
TrShares == 1..NumTrShares

TrInputs ==
    [nest : 0..MaxNest, files : BOOLEAN, maxDepth : {0, MaxNest},
     exploreDir : BOOLEAN, processDir : BOOLEAN, processFile : BOOLEAN,
     shares : 0..NumTrShares]

\* contents.go 20-26
ZeroCounts ==
    [TotalFiles |-> 0, SkippedFiles |-> 0, ProcessedFiles |-> 0,
     TotalDirectories |-> 0, SkippedDirectories |-> 0,
     ProcessedDirectories |-> 0]

\* contents.go 29-36: TraversalCounts.Add
Add(c, other) ==
    [TotalFiles |-> c.TotalFiles + other.TotalFiles,
     SkippedFiles |-> c.SkippedFiles + other.SkippedFiles,
     ProcessedFiles |-> c.ProcessedFiles + other.ProcessedFiles,
     TotalDirectories |-> c.TotalDirectories + other.TotalDirectories,
     SkippedDirectories |-> c.SkippedDirectories + other.SkippedDirectories,
     ProcessedDirectories |->
         c.ProcessedDirectories + other.ProcessedDirectories]

\* contents.go 39-60: the counters of WorkerResults
ZeroResults ==
    [Success |-> 0, TasksTotal |-> 0, TasksPending |-> 0, TasksFinished |-> 0,
     SharesTotal |-> 0, SharesProcessed |-> 0, SharesSkipped |-> 0,
     SharesPending |-> 0,
     FilesTotal |-> 0, FilesProcessed |-> 0, FilesSkipped |-> 0,
     FilesPending |-> 0,
     DirectoriesTotal |-> 0, DirectoriesProcessed |-> 0,
     DirectoriesSkipped |-> 0, DirectoriesPending |-> 0]

\* worker.go 228-230
ZeroTotals ==
    [totalShareCount |-> 0, skippedSharesCount |-> 0, counts |-> ZeroCounts]

\* contents.go 144: the entries listed in the directory at a depth
ListContents(in, depth) ==
    (IF in.files THEN {"file"} ELSE {}) \cup
    (IF depth < in.nest THEN {"dir"} ELSE {})

\* no host worker
TraverseIdle ==
    /\ trInput = [nest |-> 0, files |-> FALSE, maxDepth |-> 0,
                  exploreDir |-> FALSE, processDir |-> FALSE,
                  processFile |-> FALSE, shares |-> 0]
    /\ trHost = "start"
    /\ trTimeout = FALSE
    /\ trSem = 0
    /\ trPc = [s \in TrShares |-> "none"]
    /\ trStack = [s \in TrShares |-> <<>>]
    /\ trDepth = [s \in TrShares |-> 0]
    /\ trRet = [s \in TrShares |-> ZeroCounts]
    /\ trTotals = ZeroTotals
    /\ trResults = ZeroResults
    /\ trFlushed = [files |-> 0, dirs |-> 0]

(***************************************************************************)
(* Targets: the first target is an FQDN, the others are addresses.  A      *)
(* nameserver is configured, so FQDN targets are resolved.                 *)
(***************************************************************************)
loadedTargets == [i \in 1..NumTargets |-> i]

TargetType(t) == IF t = 1 THEN "fqdn" ELSE "ipv4"

ResolveConfigured == TRUE

ShareIds == 1..MaxShares

WorkerResultsInit ==
    [Success |-> 0, Errors |-> 0, TasksPending |-> 0,
     SharesProcessed |-> 0, SharesSkipped |-> 0, SharesPending |-> 0]

\* Manager.IsTargetProcessed
IsTargetProcessed(t) == enabled /\ t \in processedTargets

RECURSIVE FilterTargets(_)
\* main.go: the loop building targetsToProcess from loadedTargets
FilterTargets(s) ==
    IF s = <<>> THEN <<>>
    ELSE IF IsTargetProcessed(Head(s)) THEN FilterTargets(Tail(s))
         ELSE <<Head(s)>> \o FilterTargets(Tail(s))

\* the error return of ProcessTarget: Errors++ (TasksTotal and
\* TasksFinished, which nothing reads back, are left out of the record)
CountError(r) == [r EXCEPT !.Errors = @ + 1]

\* the "no shares" return of ProcessTarget
CountNoShares(r) == [r EXCEPT !.Success = @ + 1]

\* a share sub-task leaving: TasksPending--
CountTaskDone(r) == [r EXCEPT !.TasksPending = @ - 1]

SchedInit ==
    /\ schedPc = "filter"
    /\ targetsToProcess = <<>>
    /\ idx = 1
    /\ stopChan = FALSE
    /\ semaphore = 0
    /\ threads = Threads

WorkerInit ==
    /\ wpc = [t \in Targets |-> "idle"]
    /\ timeoutFlag = [t \in Targets |-> FALSE]
    /\ semCancelled = [t \in Targets |-> FALSE]
    /\ hostSemCur = [t \in Targets |-> 0]
    /\ spc = [t \in Targets |-> [s \in ShareIds |-> "none"]]
    /\ totalShareCount = [t \in Targets |-> 0]
    /\ skippedSharesCount = [t \in Targets |-> 0]
    /\ results = WorkerResultsInit

\* The state after construction: a checkpoint manager that is enabled may
\* have restored any processed set from a prior checkpoint (RestoreFrom).
Init ==
    /\ schedPc = "filter"
    /\ targetsToProcess = <<>>
    /\ idx = 1
    /\ stopChan = FALSE
    /\ semaphore = 0
    /\ threads \in 1..Threads
    /\ WorkerInit
    /\ RightsIdle
    /\ TraverseIdle
    /\ ExportIdle
    /\ SnapIdle
    /\ RulesIdle
    /\ RunsIdle
    /\ StoreIdle
    /\ CkIdle
    /\ GraphIdle
    /\ TimeoutIdle
    /\ enabled \in BOOLEAN
    /\ processedTargets \in (IF enabled THEN SUBSET Targets ELSE {{}})
    /\ saveChan = 0

(***************************************************************************)
(* Scheduler                                                               *)
(***************************************************************************)

\* main.go 299-313: filter out the targets already processed
SchedFilter ==
    /\ schedPc = "filter"
    /\ targetsToProcess' = FilterTargets(loadedTargets)
    /\ schedPc' = "loop"
    /\ UNCHANGED <<otherVars, idx, stopChan, semaphore, cpVars, workerVars>>

\* a send that queues every request
TriggerSaveQueued(n) == IF enabled THEN n + 1 ELSE n

\* Manager.TriggerSave: a non-blocking send on the one-slot saveChan
TriggerSave(n) == IF enabled /\ n = 0 THEN 1 ELSE n

\* main.go 341-346: the signal handler
SignalHandler ==
    /\ ~stopChan
    /\ schedPc \in {"loop", "wait"}
    /\ saveChan' = TriggerSave(saveChan)
    /\ stopChan' = TRUE
    /\ UNCHANGED <<otherVars, schedPc, targetsToProcess, idx, semaphore, enabled,
                   processedTargets, workerVars>>

\* main.go 354-359: the select on stopChan.  Its "break" leaves the select
\* statement only, so the loop body goes on in both cases.
SelectLeavesLoop == FALSE

\* one iteration with a send that never blocks
SchedIterateUnbounded ==
    /\ schedPc = "loop"
    /\ idx <= Len(targetsToProcess)
    /\ IF stopChan /\ SelectLeavesLoop
       THEN /\ schedPc' = "wait"
            /\ UNCHANGED <<idx, semaphore, wpc>>
       ELSE /\ semaphore' = semaphore + 1
            /\ wpc' = [wpc EXCEPT ![targetsToProcess[idx]] = "resolve"]
            /\ idx' = idx + 1
            /\ schedPc' = "loop"
    /\ UNCHANGED <<otherVars, targetsToProcess, stopChan, cpVars, timeoutFlag,
                   semCancelled, hostSemCur, spc, totalShareCount,
                   skippedSharesCount, results>>

\* main.go 352-371: one iteration of the range loop: the select, wg.Add,
\* the (blocking) send on the semaphore and the go statement
SchedIterate ==
    /\ schedPc = "loop"
    /\ idx <= Len(targetsToProcess)
    /\ IF stopChan /\ SelectLeavesLoop
       THEN /\ schedPc' = "wait"
            /\ UNCHANGED <<idx, semaphore, wpc>>
       ELSE /\ semaphore < threads
            /\ semaphore' = semaphore + 1
            /\ wpc' = [wpc EXCEPT ![targetsToProcess[idx]] = "resolve"]
            /\ idx' = idx + 1
            /\ schedPc' = "loop"
    /\ UNCHANGED <<otherVars, targetsToProcess, stopChan, cpVars, timeoutFlag,
                   semCancelled, hostSemCur, spc, totalShareCount,
                   skippedSharesCount, results>>

\* the range loop ends
SchedLoopEnd ==
    /\ schedPc = "loop"
    /\ idx > Len(targetsToProcess)
    /\ schedPc' = "wait"
    /\ UNCHANGED <<otherVars, targetsToProcess, idx, stopChan, semaphore, cpVars,
                   workerVars>>

\* main.go 373: wg.Wait() returns when every launched goroutine is done
SchedWait ==
    /\ schedPc = "wait"
    /\ \A t \in Targets : wpc[t] \in {"idle", "exited"}
    /\ schedPc' = "done"
    /\ UNCHANGED <<otherVars, targetsToProcess, idx, stopChan, semaphore, cpVars,
                   workerVars>>

(***************************************************************************)
(* Host worker: worker.ProcessTarget                                       *)
(***************************************************************************)

Running(t) == wpc[t] \notin {"idle", "returned", "exited"}

\* worker.go 79-95: the AfterFunc fires; the flag is stored first
TimerFire(t) ==
    /\ HostTimeout > 0
    /\ Running(t)
    /\ ~timeoutFlag[t]
    /\ timeoutFlag' = [timeoutFlag EXCEPT ![t] = TRUE]
    /\ UNCHANGED <<otherVars, schedVars, cpVars, wpc, semCancelled, hostSemCur, spc,
                   totalShareCount, skippedSharesCount, results>>

\* worker.go 104-118: DNS resolution of an FQDN target
WResolve(t) ==
    /\ wpc[t] = "resolve"
    /\ IF TargetType(t) = "fqdn" /\ ResolveConfigured
       THEN \E ok \in BOOLEAN :
              IF ok
              THEN /\ wpc' = [wpc EXCEPT ![t] = "chkPort"]
                   /\ UNCHANGED results
              ELSE /\ wpc' = [wpc EXCEPT ![t] = "returned"]
                   /\ results' = CountError(results)
       ELSE /\ wpc' = [wpc EXCEPT ![t] = "chkPort"]
            /\ UNCHANGED results
    /\ UNCHANGED <<otherVars, schedVars, cpVars, timeoutFlag, semCancelled, hostSemCur,
                   spc, totalShareCount, skippedSharesCount>>

\* worker.go 120-123, 137-140, 154-158: "if timeoutFlag.Load() { return }"
\* The return leaves the statistics as they are.
WCheckTimeout(t, here, next) ==
    /\ wpc[t] = here
    /\ wpc' = [wpc EXCEPT ![t] = IF timeoutFlag[t] THEN "returned" ELSE next]
    /\ UNCHANGED <<otherVars, schedVars, cpVars, timeoutFlag, semCancelled, hostSemCur,
                   spc, totalShareCount, skippedSharesCount, results>>

\* a network step of ProcessTarget that either succeeds or takes the error
\* return: IsPortOpen (125-135), pool.GetConnection (142-152)
WNetStep(t, here, next) ==
    /\ wpc[t] = here
    /\ \E ok \in BOOLEAN :
         IF ok
         THEN /\ wpc' = [wpc EXCEPT ![t] = next]
              /\ UNCHANGED results
         ELSE /\ wpc' = [wpc EXCEPT ![t] = "returned"]
              /\ results' = CountError(results)
    /\ UNCHANGED <<otherVars, schedVars, cpVars, timeoutFlag, semCancelled, hostSemCur,
                   spc, totalShareCount, skippedSharesCount>>

WCheckBeforePort(t) == WCheckTimeout(t, "chkPort", "port")
WPortCheck(t) == WNetStep(t, "port", "chkConnect")
WCheckBeforeConnect(t) == WCheckTimeout(t, "chkConnect", "connect")
WGetConnection(t) == WNetStep(t, "connect", "chkList")
WCheckBeforeList(t) == WCheckTimeout(t, "chkList", "list")

\* worker.go 160-279: conn.ListShares, the task counters and the go
\* statements of the share sub-tasks
WListShares(t) ==
    /\ wpc[t] = "list"
    /\ \/ /\ wpc' = [wpc EXCEPT ![t] = "returned"]
          /\ results' = CountError(results)
          /\ UNCHANGED spc
       \/ /\ wpc' = [wpc EXCEPT ![t] = "returned"]
          /\ results' = CountNoShares(results)
          /\ UNCHANGED spc
       \/ \E n \in 1..MaxShares :
            /\ results' = [results EXCEPT !.TasksPending = @ + n,
                                          !.SharesPending = @ + n]
            /\ spc' = [spc EXCEPT ![t] =
                         [s \in ShareIds |-> IF s <= n THEN "waiting" ELSE "none"]]
            /\ wpc' = [wpc EXCEPT ![t] = "wait"]
    /\ UNCHANGED <<otherVars, schedVars, cpVars, timeoutFlag, semCancelled, hostSemCur,
                   totalShareCount, skippedSharesCount>>

\* worker.go 209-222: the watcher goroutine cancels the semaphore context
SemCancel(t) ==
    /\ HostTimeout > 0
    /\ wpc[t] = "wait"
    /\ timeoutFlag[t]
    /\ ~semCancelled[t]
    /\ semCancelled' = [semCancelled EXCEPT ![t] = TRUE]
    /\ UNCHANGED <<otherVars, schedVars, cpVars, wpc, timeoutFlag, hostSemCur, spc,
                   totalShareCount, skippedSharesCount, results>>

\* an Acquire that takes a token whatever the semaphore holds
ShareAcquireUnbounded(t, s) ==
    /\ spc[t][s] = "waiting"
    /\ hostSemCur' = [hostSemCur EXCEPT ![t] = @ + 1]
    /\ spc' = [spc EXCEPT ![t][s] = "acquired"]
    /\ UNCHANGED <<otherVars, schedVars, cpVars, wpc, timeoutFlag, semCancelled,
                   totalShareCount, skippedSharesCount, results>>

\* worker.go 239, 247: hostSem.Acquire succeeds (x/sync v0.6.0 grants a free
\* token without looking at the context)
ShareAcquire(t, s) ==
    /\ spc[t][s] = "waiting"
    /\ hostSemCur[t] < MaxWorkersPerHost
    /\ hostSemCur' = [hostSemCur EXCEPT ![t] = @ + 1]
    /\ spc' = [spc EXCEPT ![t][s] = "acquired"]
    /\ UNCHANGED <<otherVars, schedVars, cpVars, wpc, timeoutFlag, semCancelled,
                   totalShareCount, skippedSharesCount, results>>

\* worker.go 239-246: a queued Acquire returns the context's error
ShareAcquireCancelled(t, s) ==
    /\ spc[t][s] = "waiting"
    /\ hostSemCur[t] >= MaxWorkersPerHost
    /\ semCancelled[t]
    /\ spc' = [spc EXCEPT ![t][s] = "done"]
    /\ results' = CountTaskDone(results)
    /\ UNCHANGED <<otherVars, schedVars, cpVars, wpc, timeoutFlag, semCancelled,
                   hostSemCur, totalShareCount, skippedSharesCount>>

\* worker.go 249-257: the timeout check after the semaphore was acquired
ShareCheckTimeout(t, s) ==
    /\ spc[t][s] = "acquired"
    /\ IF timeoutFlag[t]
       THEN /\ results' = CountTaskDone(results)
            /\ skippedSharesCount' = [skippedSharesCount EXCEPT ![t] = @ + 1]
            /\ hostSemCur' = [hostSemCur EXCEPT ![t] = @ - 1]
            /\ spc' = [spc EXCEPT ![t][s] = "done"]
       ELSE /\ spc' = [spc EXCEPT ![t][s] = "running"]
            /\ UNCHANGED <<results, skippedSharesCount, hostSemCur>>
    /\ UNCHANGED <<otherVars, schedVars, cpVars, wpc, timeoutFlag, semCancelled,
                   totalShareCount>>

\* worker.go 259-278: processShare has returned; counts, then Release
ShareFinish(t, s) ==
    /\ spc[t][s] = "running"
    /\ totalShareCount' = [totalShareCount EXCEPT ![t] = @ + 1]
    /\ results' = CountTaskDone(results)
    /\ hostSemCur' = [hostSemCur EXCEPT ![t] = @ - 1]
    /\ spc' = [spc EXCEPT ![t][s] = "done"]
    /\ UNCHANGED <<otherVars, schedVars, cpVars, wpc, timeoutFlag, semCancelled,
                   skippedSharesCount>>

\* worker.go 281-303: wg.Wait() and the final update of the statistics
WFinish(t) ==
    /\ wpc[t] = "wait"
    /\ \A s \in ShareIds : spc[t][s] \in {"none", "done"}
    /\ results' = [results EXCEPT
          !.SharesProcessed = @ + totalShareCount[t],
          !.SharesSkipped = @ + skippedSharesCount[t],
          !.SharesPending = @ - (totalShareCount[t] + skippedSharesCount[t]),
          !.Success = @ + 1]
    /\ wpc' = [wpc EXCEPT ![t] = "returned"]
    /\ UNCHANGED <<otherVars, schedVars, cpVars, timeoutFlag, semCancelled, hostSemCur,
                   spc, totalShareCount, skippedSharesCount>>

\* Manager.MarkTargetProcessed
MarkTargetProcessed(t) ==
    IF enabled THEN processedTargets \cup {t} ELSE processedTargets

\* main.go 364-370: after ProcessTarget, mark the target, release the
\* host semaphore, wg.Done
WExit(t) ==
    /\ wpc[t] = "returned"
    /\ processedTargets' = MarkTargetProcessed(t)
    /\ semaphore' = semaphore - 1
    /\ wpc' = [wpc EXCEPT ![t] = "exited"]
    /\ UNCHANGED <<otherVars, schedPc, targetsToProcess, idx, stopChan, enabled,
                   saveChan, timeoutFlag, semCancelled, hostSemCur, spc,
                   totalShareCount, skippedSharesCount, results>>

\* Manager.Start 119-120: the background task takes the pending request
CheckpointTake ==
    /\ saveChan > 0
    /\ schedPc # "done"
    /\ saveChan' = saveChan - 1
    /\ UNCHANGED <<otherVars, schedVars, enabled, processedTargets, workerVars>>

Next ==
    \/ SchedFilter
    \/ SignalHandler
    \/ SchedIterate
    \/ SchedLoopEnd
    \/ SchedWait
    \/ CheckpointTake
    \/ \E t \in Targets :
         \/ TimerFire(t)
         \/ WResolve(t)
         \/ WCheckBeforePort(t)
         \/ WPortCheck(t)
         \/ WCheckBeforeConnect(t)
         \/ WGetConnection(t)
         \/ WCheckBeforeList(t)
         \/ WListShares(t)
         \/ SemCancel(t)
         \/ WFinish(t)
         \/ WExit(t)
         \/ \E s \in ShareIds :
              \/ ShareAcquire(t, s)
              \/ ShareAcquireCancelled(t, s)
              \/ ShareCheckTimeout(t, s)
              \/ ShareFinish(t, s)

Spec == Init /\ [][Next]_vars

(***************************************************************************)
(* RightsSpec: one run of a rights collector on the answers of a peer.     *)
(***************************************************************************)

\* what RightsSpec never touches
schedIdleVars == <<schedVars, cpVars, workerVars, graphVars, timeoutVars,
    ckVars,
    storeVars,
    runVars,
    rulesVars,
    snapVars,
    exportVars,
    traverseVars>>

\* processShare 386: CollectShareRights on a share whose descriptor queries
\* give shareSD and, for the fallback, rootSD
RCollectShareRights ==
    /\ rOp = "none"
    /\ \E shareSD \in SDChoices :
         \E rootSD \in (IF shareSD.st = "unavailable" THEN SDChoices
                        ELSE {Unavailable}) :
            /\ rShareSD' = shareSD
            /\ rRootSD' = rootSD
            /\ rRights' = CollectShareRights(shareSD, rootSD)
    /\ rOp' = "share"
    /\ UNCHANGED <<schedIdleVars, rFileSD>>

\* contents.go 181: CollectNTFSRights on an entry whose descriptor query
\* gives fileSD
RCollectNTFSRights ==
    /\ rOp = "none"
    /\ \E fileSD \in SDChoices :
         /\ rFileSD' = fileSD
         /\ rRights' = CollectNTFSRights(fileSD)
    /\ rOp' = "ntfs"
    /\ UNCHANGED <<schedIdleVars, rShareSD, rRootSD>>

RightsInit ==
    /\ SchedInit
    /\ WorkerInit
    /\ enabled = FALSE
    /\ processedTargets = {}
    /\ saveChan = 0
    /\ RightsIdle
    /\ TraverseIdle
    /\ ExportIdle
    /\ SnapIdle
    /\ RulesIdle
    /\ RunsIdle
    /\ StoreIdle
    /\ CkIdle
    /\ GraphIdle
    /\ TimeoutIdle

RightsNext == RCollectShareRights \/ RCollectNTFSRights

RightsSpec == RightsInit /\ [][RightsNext]_vars

(***************************************************************************)
(* GraphSpec: the share sub-tasks of one host (worker.processShare and     *)
(* collector.collectContentsAtDepth) writing into the graph store.         *)
(* ResumeSpec: the same with checkpoints and restarts with --resume.       *)
(***************************************************************************)

\* what the graph specifications never touch
graphIdleVars == <<schedVars, workerVars, rightsVars, saveChan, timeoutVars,
    ckVars,
    storeVars,
    runVars,
    rulesVars,
    snapVars,
    exportVars,
    traverseVars>>

Top(s) == frames[s][Len(frames[s])]
SetTop(s, f) == [frames EXCEPT ![s] = [@ EXCEPT ![Len(@)] = f]]

\* worker.go 79-95: the host deadline fires
GTimerFire ==
    /\ HostTimeout > 0
    /\ gHostPc = "run"
    /\ ~gTimeout
    /\ gTimeout' = TRUE
    /\ UNCHANGED <<graphIdleVars, enabled, processedTargets, peerDepth,
                   gHostPc, gpc, gSem, ogc, frames, og, cpFile, resumes>>

\* worker.go 239-257: hostSem.Acquire, then the timeout check
GAcquire(s) ==
    /\ gpc[s] = "waiting"
    /\ gSem < MaxWorkersPerHost
    /\ IF gTimeout
       THEN /\ gpc' = [gpc EXCEPT ![s] = "done"]
            /\ UNCHANGED gSem
       ELSE /\ gpc' = [gpc EXCEPT ![s] = "start"]
            /\ gSem' = gSem + 1
    /\ UNCHANGED <<graphIdleVars, enabled, processedTargets, peerDepth,
                   gHostPc, gTimeout, ogc, frames, og, cpFile, resumes>>

\* processShare 362-389: the context of the share with its host node, share
\* node and share rights
ShareContext(s) ==
    [NewOpenGraphContext EXCEPT
        !.host = HostNode,
        !.share = ShareNode(s),
        !.shareRights = CollectShareRights(PeerShareSD(s), PeerRootSD(s))]

\* processShare 322-406 up to the call of CollectContentsInShare
GProcessShare(s) ==
    /\ gpc[s] = "start"
    /\ \E explore \in BOOLEAN, process \in BOOLEAN :
         IF gTimeout \/ ~explore
         THEN /\ gpc' = [gpc EXCEPT ![s] = "done"]
              /\ gSem' = gSem - 1
              /\ UNCHANGED <<ogc, frames, og>>
         ELSE LET r == IF process THEN AddPathToGraph(ShareContext(s), og)
                       ELSE [c |-> ShareContext(s), g |-> og]
              IN /\ ogc' = [ogc EXCEPT ![s] = r.c]
                 /\ og' = r.g
                 /\ frames' = [frames EXCEPT ![s] = <<NewFrame(0)>>]
                 /\ gpc' = [gpc EXCEPT ![s] = "walk"]
                 /\ UNCHANGED gSem
    /\ UNCHANGED <<graphIdleVars, enabled, processedTargets, peerDepth,
                   gHostPc, gTimeout, cpFile, resumes>>

\* the return of a collectContentsAtDepth call: contents.go 332-347 in the
\* caller (PopPath), or the return of processShare and the release of the
\* semaphore (worker.go 259-278) for the outermost call
Return(s) ==
    IF Len(frames[s]) > 1
    THEN /\ frames' = [frames EXCEPT ![s] = SubSeq(@, 1, Len(@) - 1)]
         /\ ogc' = [ogc EXCEPT ![s] = PopPath(@)]
         /\ UNCHANGED <<gpc, gSem>>
    ELSE /\ frames' = [frames EXCEPT ![s] = <<>>]
         /\ gpc' = [gpc EXCEPT ![s] = "done"]
         /\ gSem' = gSem - 1
         /\ UNCHANGED ogc

\* contents.go 106-148: the checks, SetDepth and ListContents
GEnter(s) ==
    /\ gpc[s] = "walk"
    /\ Top(s).phase = "enter"
    /\ IF gTimeout \/ (Depth > 0 /\ Top(s).depth >= Depth)
       THEN Return(s)
       ELSE /\ \E contents \in SUBSET PeerChildren(s, GetStringPathFromRoot(ogc[s])) :
                 frames' = SetTop(s, [Top(s) EXCEPT !.phase = "entries",
                                                    !.contents = contents])
            /\ UNCHANGED <<gpc, gSem, ogc>>
    /\ UNCHANGED <<graphIdleVars, enabled, processedTargets, peerDepth,
                   gHostPc, gTimeout, og, cpFile, resumes>>

\* contents.go 158-306: one iteration of the loop over the listing, on any
\* of its entries (the order of a map range is not fixed)
GEntry(s) ==
    /\ gpc[s] = "walk"
    /\ Top(s).phase = "entries"
    /\ ~gTimeout
    /\ \E name \in Top(s).contents, explore \in BOOLEAN, process \in BOOLEAN :
         LET fullPath == Append(GetStringPathFromRoot(ogc[s]), name)
             elementRights == CollectNTFSRights(PeerFileSD(s, fullPath))
             c1 == [ogc[s] EXCEPT !.elementRights = elementRights]
             node == IF IsDir(name) THEN DirNode(s, fullPath)
                     ELSE FileNode(s, fullPath)
             c2 == [c1 EXCEPT !.element = node]
             rest == [Top(s) EXCEPT !.contents = @ \ {name}]
             r == IF process THEN AddPathToGraph(c2, og) ELSE [c |-> c2, g |-> og]
         IN IF IsDir(name)
            THEN IF ~explore
                 THEN /\ ogc' = [ogc EXCEPT ![s] = c1]
                      /\ frames' = SetTop(s, rest)
                      /\ UNCHANGED og
                 ELSE /\ ogc' = [ogc EXCEPT ![s] = ClearElement(r.c)]
                      /\ og' = r.g
                      /\ frames' = SetTop(s, [rest EXCEPT !.dirsToExplore =
                             Append(@, [node |-> node, rights |-> elementRights])])
            ELSE IF ~process
                 THEN /\ ogc' = [ogc EXCEPT ![s] = c1]
                      /\ frames' = SetTop(s, rest)
                      /\ UNCHANGED og
                 ELSE /\ ogc' = [ogc EXCEPT ![s] = ClearElement(r.c)]
                      /\ og' = r.g
                      /\ frames' = SetTop(s, rest)
    /\ UNCHANGED <<graphIdleVars, enabled, processedTargets, peerDepth,
                   gHostPc, gpc, gTimeout, gSem, cpFile, resumes>>

\* contents.go 158-165: the loop over the listing ends, or breaks on timeout
GEntriesEnd(s) ==
    /\ gpc[s] = "walk"
    /\ Top(s).phase = "entries"
    /\ Top(s).contents = {} \/ gTimeout
    /\ frames' = SetTop(s, [Top(s) EXCEPT !.phase = "descend"])
    /\ UNCHANGED <<graphIdleVars, enabled, processedTargets, peerDepth,
                   gHostPc, gpc, gTimeout, gSem, ogc, og, cpFile, resumes>>

\* contents.go 309-330: the loop over dirsToExplore: PushPath and the
\* recursive call, or the return when the loop ends or breaks on timeout
GDescend(s) ==
    /\ gpc[s] = "walk"
    /\ Top(s).phase = "descend"
    /\ IF Top(s).dirsToExplore = <<>> \/ gTimeout
       THEN Return(s)
       ELSE LET dir == Head(Top(s).dirsToExplore)
            IN /\ ogc' = [ogc EXCEPT ![s] = PushPath(@, dir.node, dir.rights)]
               /\ frames' = [frames EXCEPT ![s] =
                     Append([@ EXCEPT ![Len(@)].dirsToExplore = Tail(@)],
                            NewFrame(Top(s).depth + 1))]
               /\ UNCHANGED <<gpc, gSem>>
    /\ UNCHANGED <<graphIdleVars, enabled, processedTargets, peerDepth,
                   gHostPc, gTimeout, og, cpFile, resumes>>

\* worker.go 281-303 and main.go 367: every sub-task is over, ProcessTarget
\* returns and the target is marked as processed
GHostDone ==
    /\ gHostPc = "run"
    /\ \A s \in GShares : gpc[s] = "done"
    /\ gHostPc' = "done"
    /\ processedTargets' = MarkTargetProcessed(GHost)
    /\ UNCHANGED <<graphIdleVars, enabled, peerDepth, gpc, gTimeout, gSem,
                   ogc, frames, og, cpFile, resumes>>

\* Manager.saveCheckpoint: the processed set and the nodes and edges of the
\* store are written to the checkpoint file
GSaveCheckpoint ==
    /\ enabled
    /\ gHostPc = "run"
    /\ cpFile' = [exists |-> TRUE, processed |-> processedTargets,
                  nodeIDs |-> og.nodeIDs, edges |-> og.edges]
    /\ cpFile' # cpFile
    /\ UNCHANGED <<graphIdleVars, enabled, processedTargets, peerDepth,
                   gHostPc, gpc, gTimeout, gSem, ogc, frames, og, resumes>>

\* OpenGraph.RestoreNodesAndEdges
RestoreNodesAndEdges(nodeIDs, edges) == [nodeIDs |-> nodeIDs, edges |-> edges]

\* the process ends before the scan is complete and is started again with
\* --resume: main.go 218-234 restores the processed set and the graph, the
\* scheduler drops the processed targets and the others are crawled again
GResume ==
    /\ gHostPc = "run"
    /\ cpFile.exists
    /\ resumes < MaxResumes
    /\ resumes' = resumes + 1
    /\ processedTargets' = cpFile.processed
    /\ og' = RestoreNodesAndEdges(cpFile.nodeIDs, cpFile.edges)
    /\ gHostPc' = IF GHost \in cpFile.processed THEN "done" ELSE "run"
    /\ gpc' = [s \in GShares |->
                 IF GHost \in cpFile.processed THEN "done" ELSE "waiting"]
    /\ gTimeout' = FALSE
    /\ gSem' = 0
    /\ ogc' = [s \in GShares |-> NewOpenGraphContext]
    /\ frames' = [s \in GShares |-> <<>>]
    /\ UNCHANGED <<graphIdleVars, enabled, peerDepth, cpFile>>

GraphInit ==
    /\ SchedInit
    /\ WorkerInit
    /\ RightsIdle
    /\ TraverseIdle
    /\ ExportIdle
    /\ SnapIdle
    /\ RulesIdle
    /\ RunsIdle
    /\ StoreIdle
    /\ CkIdle
    /\ enabled = TRUE
    /\ processedTargets = {}
    /\ saveChan = 0
    /\ peerDepth = TreeDepth
    /\ GraphStart
    /\ og = NewOpenGraph
    /\ cpFile = NoCheckpoint
    /\ resumes = 0
    /\ TimeoutIdle

GraphNext ==
    \/ GTimerFire
    \/ GHostDone
    \/ \E s \in GShares :
         \/ GAcquire(s)
         \/ GProcessShare(s)
         \/ GEnter(s)
         \/ GEntry(s)
         \/ GEntriesEnd(s)
         \/ GDescend(s)

GraphSpec == GraphInit /\ [][GraphNext]_vars

ResumeInit ==
    /\ SchedInit
    /\ WorkerInit
    /\ RightsIdle
    /\ TraverseIdle
    /\ ExportIdle
    /\ SnapIdle
    /\ RulesIdle
    /\ RunsIdle
    /\ StoreIdle
    /\ CkIdle
    /\ enabled = TRUE
    /\ processedTargets = {}
    /\ saveChan = 0
    /\ peerDepth = TreeDepth - 1
    /\ GraphStart
    /\ og = NewOpenGraph
    /\ cpFile = NoCheckpoint
    /\ resumes = 0
    /\ TimeoutIdle

ResumeNext ==
    \/ GraphNext
    \/ GSaveCheckpoint
    \/ GResume

ResumeSpec == ResumeInit /\ [][ResumeNext]_vars

(***************************************************************************)
(* TimeoutSpec: ProcessTarget with a host timeout against a peer that may  *)
(* stall any operation until its socket is closed.                         *)
(***************************************************************************)

\* what TimeoutSpec never touches
timeoutIdleVars == <<schedVars, cpVars, workerVars, rightsVars, graphVars,
    ckVars,
    storeVars,
    runVars,
    rulesVars,
    snapVars,
    exportVars,
    traverseVars>>

Goto(t, pc) == tpc' = [tpc EXCEPT ![t] = pc]

\* the sessions the pool knows
Tracked == activeConnections \cup {connections[i] : i \in DOMAIN connections}

\* a session object nobody refers to
Unused(x) == x \notin Tracked /\ \A t \in Threads0 : tSess[t] # x

\* the operation thread t has in flight ends: the peer answers, or the socket
\* of the session is closed
OpEnds(t) == ~tStall[t] \/ sConn[tSess[t]] # "open"

\* ... and it can end without error
OpSucceeds(t) ==
    ~tStall[t] /\ sConn[tSess[t]] = "open" /\ sLive[tSess[t]]

\* where GetConnection returns to
GcOk(t) == IF t = 0 THEN "chk155" ELSE "chk358"
GcErr(t) == IF t = 0 THEN "deferStop" ELSE "subEnd"

\* the positions at which a thread waits for an answer of the peer
StallPcs == {"ping", "list", "mount", "desc", "listdir", "fdesc",
             "deadCloseIO", "retCloseIO", "caCloseIO"}

\* the peer stops answering the operation in flight
PeerStall(t) ==
    /\ tpc[t] \in StallPcs
    /\ ~tStall[t]
    /\ sConn[tSess[t]] = "open"
    /\ tStall' = [tStall EXCEPT ![t] = TRUE]
    /\ UNCHANGED <<timeoutIdleVars, tpc, tSess, tNext, timerVars, tSem,
                   poolVars, sessVars>>

\* ---- the deadline ------------------------------------------------------

\* worker.go 80-81: the AfterFunc fires and stores the flag
TTimerFire ==
    /\ tTimer = "armed"
    /\ tFlag' = TRUE
    /\ tTimer' = "fired"
    /\ UNCHANGED <<timeoutIdleVars, threadVars, tTicker, tSem, poolVars,
                   sessVars>>

\* SMBSession.ForceClose: with the session mutex (TryLock) the socket is
\* closed and the fields are cleared; without it only the socket is closed
ForceCloseConn(x) ==
    IF sMu[x] THEN (IF sConn[x] = "open" THEN "dead" ELSE sConn[x]) ELSE "nil"

\* ConnectionPool.ForceCloseAll: under p.mu, ForceClose on every active and
\* every pooled session, then both collections are emptied
ForceCloseAll ==
    /\ poolMu = Free
    /\ sConn' = [x \in Sessions |->
                   IF x \in Tracked THEN ForceCloseConn(x) ELSE sConn[x]]
    /\ sLive' = [x \in Sessions |-> sLive[x] /\ ~(x \in Tracked /\ ~sMu[x])]
    /\ sShare' = [x \in Sessions |-> sShare[x] /\ ~(x \in Tracked /\ ~sMu[x])]
    /\ activeConnections' = {}
    /\ connections' = <<>>
    /\ UNCHANGED <<poolMu, sMu>>

\* worker.go 86: the timer function calls pool.ForceCloseAll()
TTimerForceCloseAll ==
    /\ tTimer = "fired"
    /\ ForceCloseAll
    /\ tTimer' = "closed"
    /\ UNCHANGED <<timeoutIdleVars, threadVars, tFlag, tTicker, tSem>>

\* worker.go 89-94: the ticker is created and its goroutine started
TTimerStartTicker ==
    /\ tTimer = "closed"
    /\ tTimer' = "over"
    /\ tTicker' = "running"
    /\ UNCHANGED <<timeoutIdleVars, threadVars, tFlag, tSem, poolVars,
                   sessVars>>

\* worker.go 91-93: a tick of the ticker
TTick ==
    /\ tTicker = "running"
    /\ ForceCloseAll
    /\ UNCHANGED <<timeoutIdleVars, threadVars, timerVars, tSem>>

\* ---- ConnectionPool.GetConnection --------------------------------------

\* pool.go 42-61: take the last pooled session, if any
TGetConnection(t) ==
    /\ tpc[t] = "gc"
    /\ poolMu = Free
    /\ IF connections # <<>>
       THEN /\ tSess' = [tSess EXCEPT ![t] = connections[Len(connections)]]
            /\ connections' = SubSeq(connections, 1, Len(connections) - 1)
            /\ activeConnections' =
                   activeConnections \cup {connections[Len(connections)]}
            /\ Goto(t, "ping")
       ELSE /\ Goto(t, "new")
            /\ UNCHANGED <<tSess, connections, activeConnections>>
    /\ UNCHANGED <<timeoutIdleVars, tNext, tStall, timerVars, tSem, poolMu,
                   sessVars>>

\* pool.go 51-53, SMBSession.Ping
TPing(t) ==
    /\ tpc[t] = "ping"
    /\ OpEnds(t) \/ ~sLive[tSess[t]]
    /\ \E ok \in BOOLEAN :
         /\ ok => OpSucceeds(t)
         /\ Goto(t, IF ok THEN GcOk(t) ELSE "pingDead")
    /\ tStall' = [tStall EXCEPT ![t] = FALSE]
    /\ UNCHANGED <<timeoutIdleVars, tSess, tNext, timerVars, tSem, poolVars,
                   sessVars>>

\* pool.go 55-57: the dead session leaves activeConnections
TPingDead(t) ==
    /\ tpc[t] = "pingDead"
    /\ poolMu = Free
    /\ activeConnections' = activeConnections \ {tSess[t]}
    /\ Goto(t, "deadClose")
    /\ UNCHANGED <<timeoutIdleVars, tSess, tNext, tStall, timerVars, tSem,
                   poolMu, connections, sessVars>>

\* SMBSession.Close 147-148: s.mu.Lock()
TCloseBegin(t) ==
    /\ tpc[t] \in {"deadClose", "retClose", "caClose"}
    /\ ~sMu[tSess[t]]
    /\ sMu' = [sMu EXCEPT ![tSess[t]] = TRUE]
    /\ Goto(t, IF tpc[t] = "deadClose" THEN "deadCloseIO"
               ELSE IF tpc[t] = "retClose" THEN "retCloseIO" ELSE "caCloseIO")
    /\ UNCHANGED <<timeoutIdleVars, tSess, tNext, tStall, timerVars, tSem,
                   poolVars, sConn, sLive, sShare>>

\* Close has something to say to the peer: Umount and Logoff
CloseTalks(x) == (sShare[x] \/ sLive[x]) /\ sConn[x] = "open"

\* SMBSession.Close 150-168: Umount, Logoff, conn.Close() and the unlock,
\* then what follows the call: pool.go 59-64 after a dead session,
\* the deferred unlock of ReturnConnection, the next round of CloseAll
TCloseEnd(t) ==
    /\ tpc[t] \in {"deadCloseIO", "retCloseIO", "caCloseIO"}
    /\ ~CloseTalks(tSess[t]) \/ ~tStall[t]
    /\ sConn' = [sConn EXCEPT ![tSess[t]] = "nil"]
    /\ sLive' = [sLive EXCEPT ![tSess[t]] = FALSE]
    /\ sShare' = [sShare EXCEPT ![tSess[t]] = FALSE]
    /\ sMu' = [sMu EXCEPT ![tSess[t]] = FALSE]
    /\ tStall' = [tStall EXCEPT ![t] = FALSE]
    /\ tSess' = [tSess EXCEPT ![t] = 0]
    /\ IF tpc[t] = "deadCloseIO"
       THEN Goto(t, "new") /\ UNCHANGED poolVars
       ELSE IF tpc[t] = "retCloseIO"
       THEN /\ Goto(t, tNext[t])
            /\ poolMu' = Free
            /\ UNCHANGED <<connections, activeConnections>>
       ELSE /\ Goto(t, "caLoop")
            /\ connections' = Tail(connections)
            /\ UNCHANGED <<poolMu, activeConnections>>
    /\ UNCHANGED <<timeoutIdleVars, tNext, timerVars, tSem>>

\* pool.go 64-78: NewSMBSession and its entry in activeConnections
TNewSession(t) ==
    /\ tpc[t] = "new"
    /\ poolMu = Free
    /\ \E x \in Sessions :
         /\ Unused(x)
         /\ \A y \in Sessions : Unused(y) => x <= y
         /\ tSess' = [tSess EXCEPT ![t] = x]
         /\ activeConnections' = activeConnections \cup {x}
         /\ sConn' = [sConn EXCEPT ![x] = "nil"]
         /\ sLive' = [sLive EXCEPT ![x] = FALSE]
         /\ sShare' = [sShare EXCEPT ![x] = FALSE]
         /\ sMu' = [sMu EXCEPT ![x] = FALSE]
    /\ Goto(t, "dial")
    /\ UNCHANGED <<timeoutIdleVars, tNext, tStall, timerVars, tSem, poolMu,
                   connections>>

\* SMBSession.Connect 97-111: IsPortOpen and DialTimeout, both bounded by
\* the connection timeout
TDial(t) ==
    /\ tpc[t] = "dial"
    /\ \E ok \in BOOLEAN :
         IF ok
         THEN /\ sConn' = [sConn EXCEPT ![tSess[t]] = "open"]
              /\ Goto(t, "auth")
         ELSE /\ Goto(t, "connErr")
              /\ UNCHANGED sConn
    /\ UNCHANGED <<timeoutIdleVars, tSess, tNext, tStall, timerVars, tSem,
                   poolVars, sLive, sShare, sMu>>

\* SMBSession.Connect 124-142: DialConn under a context with the timeout
TAuth(t) ==
    /\ tpc[t] = "auth"
    /\ \E ok \in BOOLEAN :
         /\ ok => sConn[tSess[t]] = "open"
         /\ IF ok
            THEN /\ sLive' = [sLive EXCEPT ![tSess[t]] = TRUE]
                 /\ Goto(t, GcOk(t))
                 /\ UNCHANGED sConn
            ELSE /\ sConn' = [sConn EXCEPT ![tSess[t]] =
                                 IF @ = "open" THEN "dead" ELSE @]
                 /\ Goto(t, "connErr")
                 /\ UNCHANGED sLive
    /\ UNCHANGED <<timeoutIdleVars, tSess, tNext, tStall, timerVars, tSem,
                   poolVars, sShare, sMu>>

\* pool.go 80-86: Connect has failed
TConnErr(t) ==
    /\ tpc[t] = "connErr"
    /\ poolMu = Free
    /\ activeConnections' = activeConnections \ {tSess[t]}
    /\ tSess' = [tSess EXCEPT ![t] = 0]
    /\ Goto(t, GcErr(t))
    /\ UNCHANGED <<timeoutIdleVars, tNext, tStall, timerVars, tSem, poolMu,
                   connections, sessVars>>

\* ReturnConnection without the test of the capacity
TReturnConnectionUnbounded(t) ==
    /\ tpc[t] = "ret"
    /\ poolMu = Free
    /\ activeConnections' = activeConnections \ {tSess[t]}
    /\ connections' = Append(connections, tSess[t])
    /\ tSess' = [tSess EXCEPT ![t] = 0]
    /\ Goto(t, tNext[t])
    /\ UNCHANGED <<timeoutIdleVars, tNext, tStall, timerVars, tSem, poolMu,
                   sessVars>>

\* ConnectionPool.ReturnConnection 93-105: under p.mu the session goes back
\* to the pool, or is closed under the lock when the pool is full
TReturnConnection(t) ==
    /\ tpc[t] = "ret"
    /\ poolMu = Free
    /\ activeConnections' = activeConnections \ {tSess[t]}
    /\ IF Len(connections) < MaxWorkersPerHost
       THEN /\ connections' = Append(connections, tSess[t])
            /\ tSess' = [tSess EXCEPT ![t] = 0]
            /\ Goto(t, tNext[t])
            /\ UNCHANGED poolMu
       ELSE /\ poolMu' = t
            /\ Goto(t, "retClose")
            /\ UNCHANGED <<connections, tSess>>
    /\ UNCHANGED <<timeoutIdleVars, tNext, tStall, timerVars, tSem, sessVars>>

\* ---- ProcessTarget and processShare ------------------------------------

\* "if timeoutFlag.Load() { return }" at worker.go 137, 155, 250, 345, 358
\* and contents.go 109, 162: where the thread goes with the flag set and
\* with the flag clear
OnTimeout ==
    [chk137 |-> "deferStop", chk155 |-> "ret", chk250 |-> "subEnd",
     chk345 |-> "subEnd", chk358 |-> "ret", chk109 |-> "ret", chk162 |-> "ret"]

OnTime ==
    [chk137 |-> "gc", chk155 |-> "list", chk250 |-> "chk345",
     chk345 |-> "gc", chk358 |-> "mount", chk109 |-> "listdir",
     chk162 |-> "fdesc"]

TCheckTimeout(t) ==
    /\ tpc[t] \in DOMAIN OnTimeout
    /\ Goto(t, IF tFlag THEN OnTimeout[tpc[t]] ELSE OnTime[tpc[t]])
    /\ tNext' = [tNext EXCEPT ![t] = IF t = 0 THEN "deferStop" ELSE "subEnd"]
    /\ UNCHANGED <<timeoutIdleVars, tSess, tStall, timerVars, tSem, poolVars,
                   sessVars>>

\* worker.go 161-192: conn.ListShares(), then ReturnConnection on every path
TListShares ==
    /\ tpc[0] = "list"
    /\ OpEnds(0)
    /\ \E ok \in BOOLEAN :
         /\ ok => OpSucceeds(0)
         /\ tNext' = [tNext EXCEPT ![0] = IF ok THEN "spawn" ELSE "deferStop"]
    /\ Goto(0, "ret")
    /\ tStall' = [tStall EXCEPT ![0] = FALSE]
    /\ UNCHANGED <<timeoutIdleVars, tSess, timerVars, tSem, poolVars,
                   sessVars>>

\* worker.go 232-279: the go statements of the share sub-tasks
TSpawn ==
    /\ tpc[0] = "spawn"
    /\ tpc' = [t \in Threads0 |-> IF t = 0 THEN "wait" ELSE "acq"]
    /\ UNCHANGED <<timeoutIdleVars, tSess, tNext, tStall, timerVars, tSem,
                   poolVars, sessVars>>

\* worker.go 239-247: hostSem.Acquire; a queued Acquire fails once the
\* watcher has cancelled the context after the deadline
TAcquire(t) ==
    /\ tpc[t] = "acq"
    /\ \/ /\ tSem < MaxWorkersPerHost
          /\ tSem' = tSem + 1
          /\ Goto(t, "chk250")
       \/ /\ tSem >= MaxWorkersPerHost
          /\ tFlag
          /\ Goto(t, "done")
          /\ UNCHANGED tSem
    /\ UNCHANGED <<timeoutIdleVars, tSess, tNext, tStall, timerVars,
                   poolVars, sessVars>>

\* processShare 379: conn.SetShare mounts the share
TSetShare(t) ==
    /\ tpc[t] = "mount"
    /\ OpEnds(t)
    /\ \E ok \in BOOLEAN :
         /\ ok => OpSucceeds(t)
         /\ Goto(t, IF ok THEN "desc" ELSE "ret")
         /\ sShare' = [sShare EXCEPT ![tSess[t]] = ok]
    /\ tStall' = [tStall EXCEPT ![t] = FALSE]
    /\ UNCHANGED <<timeoutIdleVars, tSess, tNext, timerVars, tSem, poolVars,
                   sConn, sLive, sMu>>

\* processShare 385: the descriptor queries of CollectShareRights, whose
\* error is ignored
TShareDescriptor(t) ==
    /\ tpc[t] = "desc"
    /\ OpEnds(t)
    /\ Goto(t, "chk109")
    /\ tStall' = [tStall EXCEPT ![t] = FALSE]
    /\ UNCHANGED <<timeoutIdleVars, tSess, tNext, timerVars, tSem, poolVars,
                   sessVars>>

\* contents.go 144-148: ListContents
TListContents(t) ==
    /\ tpc[t] = "listdir"
    /\ OpEnds(t)
    /\ \E ok \in BOOLEAN :
         /\ ok => OpSucceeds(t)
         /\ Goto(t, IF ok THEN "chk162" ELSE "ret")
    /\ tStall' = [tStall EXCEPT ![t] = FALSE]
    /\ UNCHANGED <<timeoutIdleVars, tSess, tNext, timerVars, tSem, poolVars,
                   sessVars>>

\* contents.go 182: the descriptor query of an entry, whose error is
\* ignored; the listing has this one entry
TFileDescriptor(t) ==
    /\ tpc[t] = "fdesc"
    /\ OpEnds(t)
    /\ Goto(t, "ret")
    /\ tStall' = [tStall EXCEPT ![t] = FALSE]
    /\ UNCHANGED <<timeoutIdleVars, tSess, tNext, timerVars, tSem, poolVars,
                   sessVars>>

\* worker.go 247: the deferred hostSem.Release and wg.Done
TSubEnd(t) ==
    /\ tpc[t] = "subEnd"
    /\ tSem' = tSem - 1
    /\ Goto(t, "done")
    /\ UNCHANGED <<timeoutIdleVars, tSess, tNext, tStall, timerVars,
                   poolVars, sessVars>>

\* worker.go 281: wg.Wait()
TWait ==
    /\ tpc[0] = "wait"
    /\ \A t \in Threads0 \ {0} : tpc[t] = "done"
    /\ Goto(0, "deferStop")
    /\ UNCHANGED <<timeoutIdleVars, tSess, tNext, tStall, timerVars, tSem,
                   poolVars, sessVars>>

\* worker.go 96-101: the deferred hostTimeoutTimer.Stop(), which does not
\* stop a timer function that is running, and timeoutTicker.Stop()
TDeferStop ==
    /\ tpc[0] = "deferStop"
    /\ tTimer' = IF tTimer = "armed" THEN "stopped" ELSE tTimer
    /\ tTicker' = IF tTicker = "running" THEN "stopped" ELSE tTicker
    /\ Goto(0, "closeAll")
    /\ UNCHANGED <<timeoutIdleVars, tSess, tNext, tStall, tFlag, tSem,
                   poolVars, sessVars>>

\* worker.go 77, pool.go 109: the deferred pool.CloseAll() takes p.mu
TCloseAll ==
    /\ tpc[0] = "closeAll"
    /\ poolMu = Free
    /\ poolMu' = 0
    /\ Goto(0, "caLoop")
    /\ UNCHANGED <<timeoutIdleVars, tSess, tNext, tStall, timerVars, tSem,
                   connections, activeConnections, sessVars>>

\* pool.go 112-118: the next pooled session is closed, or the loop is over,
\* p.mu is released and ProcessTarget has returned
TCloseAllLoop ==
    /\ tpc[0] = "caLoop"
    /\ IF connections = <<>>
       THEN /\ poolMu' = Free
            /\ Goto(0, "returned")
            /\ UNCHANGED tSess
       ELSE /\ tSess' = [tSess EXCEPT ![0] = Head(connections)]
            /\ Goto(0, "caClose")
            /\ UNCHANGED poolMu
    /\ UNCHANGED <<timeoutIdleVars, tNext, tStall, timerVars, tSem,
                   connections, activeConnections, sessVars>>

TimeoutInit ==
    /\ SchedInit
    /\ WorkerInit
    /\ RightsIdle
    /\ TraverseIdle
    /\ ExportIdle
    /\ SnapIdle
    /\ RulesIdle
    /\ RunsIdle
    /\ StoreIdle
    /\ CkIdle
    /\ GraphIdle
    /\ enabled = FALSE
    /\ processedTargets = {}
    /\ saveChan = 0
    /\ tpc = [t \in Threads0 |-> IF t = 0 THEN "chk137" ELSE "idle"]
    /\ tSess = [t \in Threads0 |-> 0]
    /\ tNext = [t \in Threads0 |-> "idle"]
    /\ tStall = [t \in Threads0 |-> FALSE]
    /\ tFlag = FALSE
    /\ tTimer = IF HostTimeout > 0 THEN "armed" ELSE "stopped"
    /\ tTicker = "nil"
    /\ tSem = 0
    /\ poolMu = Free
    /\ connections = <<>>
    /\ activeConnections = {}
    /\ sConn = [x \in Sessions |-> "nil"]
    /\ sLive = [x \in Sessions |-> FALSE]
    /\ sShare = [x \in Sessions |-> FALSE]
    /\ sMu = [x \in Sessions |-> FALSE]

TimeoutNext ==
    \/ TTimerFire
    \/ TTimerForceCloseAll
    \/ TTimerStartTicker
    \/ TTick
    \/ TListShares
    \/ TSpawn
    \/ TWait
    \/ TDeferStop
    \/ TCloseAll
    \/ TCloseAllLoop
    \/ \E t \in Threads0 :
         \/ PeerStall(t)
         \/ TCheckTimeout(t)
         \/ TGetConnection(t)
         \/ TPing(t)
         \/ TPingDead(t)
         \/ TCloseBegin(t)
         \/ TCloseEnd(t)
         \/ TNewSession(t)
         \/ TDial(t)
         \/ TAuth(t)
         \/ TConnErr(t)
         \/ TReturnConnection(t)
         \/ TAcquire(t)
         \/ TSetShare(t)
         \/ TShareDescriptor(t)
         \/ TListContents(t)
         \/ TFileDescriptor(t)
         \/ TSubEnd(t)

TimeoutSpec == TimeoutInit /\ [][TimeoutNext]_vars

(***************************************************************************)
(* PoolSpec: the ConnectionPool of one host used by clients that call      *)
(* GetConnection and ReturnConnection in any interleaving, with CloseAll   *)
(* and ForceCloseAll running beside them.                                  *)
(***************************************************************************)

\* a client calls GetConnection
PAcquire(t) ==
    /\ tpc[t] = "client"
    /\ Goto(t, "gc")
    /\ UNCHANGED <<timeoutIdleVars, tSess, tNext, tStall, timerVars, tSem,
                   poolVars, sessVars>>

\* GetConnection has returned a session; the client will hand it back with
\* ReturnConnection
PGot(t) ==
    /\ tpc[t] = GcOk(t)
    /\ Goto(t, "ret")
    /\ tNext' = [tNext EXCEPT ![t] = "client"]
    /\ UNCHANGED <<timeoutIdleVars, tSess, tStall, timerVars, tSem, poolVars,
                   sessVars>>

\* GetConnection has returned an error
PFailed(t) ==
    /\ tpc[t] = GcErr(t)
    /\ Goto(t, "client")
    /\ UNCHANGED <<timeoutIdleVars, tSess, tNext, tStall, timerVars, tSem,
                   poolVars, sessVars>>

\* the first client calls CloseAll, and goes on after it has returned
PCloseAll ==
    /\ tpc[0] \in {"client", "returned"}
    /\ Goto(0, IF tpc[0] = "client" THEN "closeAll" ELSE "client")
    /\ UNCHANGED <<timeoutIdleVars, tSess, tNext, tStall, timerVars, tSem,
                   poolVars, sessVars>>

\* some goroutine calls ForceCloseAll
PForceCloseAll ==
    /\ ForceCloseAll
    /\ UNCHANGED <<timeoutIdleVars, threadVars, timerVars, tSem>>

PoolInit ==
    /\ SchedInit
    /\ WorkerInit
    /\ RightsIdle
    /\ TraverseIdle
    /\ ExportIdle
    /\ SnapIdle
    /\ RulesIdle
    /\ RunsIdle
    /\ StoreIdle
    /\ CkIdle
    /\ GraphIdle
    /\ enabled = FALSE
    /\ processedTargets = {}
    /\ saveChan = 0
    /\ tpc = [t \in Threads0 |-> "client"]
    /\ tSess = [t \in Threads0 |-> 0]
    /\ tNext = [t \in Threads0 |-> "client"]
    /\ tStall = [t \in Threads0 |-> FALSE]
    /\ tFlag = FALSE
    /\ tTimer = "stopped"
    /\ tTicker = "nil"
    /\ tSem = 0
    /\ poolMu = Free
    /\ connections = <<>>
    /\ activeConnections = {}
    /\ sConn = [x \in Sessions |-> "nil"]
    /\ sLive = [x \in Sessions |-> FALSE]
    /\ sShare = [x \in Sessions |-> FALSE]
    /\ sMu = [x \in Sessions |-> FALSE]

PoolNext ==
    \/ PCloseAll
    \/ PForceCloseAll
    \/ TCloseAll
    \/ TCloseAllLoop
    \/ \E t \in Threads0 :
         \/ PAcquire(t)
         \/ PGot(t)
         \/ PFailed(t)
         \/ PeerStall(t)
         \/ TGetConnection(t)
         \/ TPing(t)
         \/ TPingDead(t)
         \/ TCloseBegin(t)
         \/ TCloseEnd(t)
         \/ TNewSession(t)
         \/ TDial(t)
         \/ TAuth(t)
         \/ TConnErr(t)
         \/ TReturnConnection(t)

PoolSpec == PoolInit /\ [][PoolNext]_vars

(***************************************************************************)
(* SessionSpec: one SMBSession, the goroutine that owns it (Connect, then  *)
(* SetShare, ListContents, Close) and a goroutine that calls ForceClose,   *)
(* with the session mutex taken and released step by step.                 *)
(***************************************************************************)

TheSession == 1
User == 0
Closer == 1

\* what SessionSpec never touches
sessionIdleVars == <<timeoutIdleVars, tSess, tNext, timerVars, tSem, poolVars>>

\* the positions at which the owner waits for the peer
SessionIOPcs == {"ssMount", "ssUmount", "lcRead", "clIn"}

\* the peer stops answering the operation of the owner
SPeerStall ==
    /\ tpc[User] \in SessionIOPcs
    /\ ~tStall[User]
    /\ sConn[TheSession] = "open"
    /\ tStall' = [tStall EXCEPT ![User] = TRUE]
    /\ UNCHANGED <<sessionIdleVars, tpc, sessVars>>

\* the operation of the owner ends: the peer answers or the socket is closed
SOpEnds == ~tStall[User] \/ sConn[TheSession] # "open"

\* Connect 97-111: IsPortOpen and DialTimeout, then s.conn = conn, all
\* without the mutex
SConnectDial ==
    /\ tpc[User] = "new"
    /\ \E ok \in BOOLEAN :
         IF ok
         THEN /\ sConn' = [sConn EXCEPT ![TheSession] = "open"]
              /\ Goto(User, "cAuth")
         ELSE /\ Goto(User, "failed")
              /\ UNCHANGED sConn
    /\ UNCHANGED <<sessionIdleVars, tStall, sLive, sShare, sMu>>

\* Connect 124-134: DialConn on the local conn, bounded by the timeout; on
\* error conn.Close() and the error is returned
SConnectAuth ==
    /\ tpc[User] = "cAuth"
    /\ \E ok \in BOOLEAN :
         /\ ok => sConn[TheSession] = "open"
         /\ IF ok
            THEN /\ Goto(User, "cSet")
                 /\ UNCHANGED sConn
            ELSE /\ sConn' = [sConn EXCEPT ![TheSession] =
                                 IF @ = "open" THEN "dead" ELSE @]
                 /\ Goto(User, "failed")
    /\ UNCHANGED <<sessionIdleVars, tStall, sLive, sShare, sMu>>

\* Connect 136-142: s.session = session; s.connected = true, without the
\* mutex
SConnectSet ==
    /\ tpc[User] = "cSet"
    /\ sLive' = [sLive EXCEPT ![TheSession] = TRUE]
    /\ Goto(User, "ready")
    /\ UNCHANGED <<sessionIdleVars, tStall, sConn, sShare, sMu>>

\* s.mu.Lock() at the head of SetShare (272), ListContents (327), Close (147)
SLock ==
    /\ tpc[User] = "ready"
    /\ ~sMu[TheSession]
    /\ sMu' = [sMu EXCEPT ![TheSession] = TRUE]
    /\ \E op \in {"ssIn", "lcIn", "clIn"} : Goto(User, op)
    /\ UNCHANGED <<sessionIdleVars, tStall, sConn, sLive, sShare>>

\* SetShare 273-280: the check of the state, s.share = nil, Unlock
SSetShareCheck ==
    /\ tpc[User] = "ssIn"
    /\ sMu' = [sMu EXCEPT ![TheSession] = FALSE]
    /\ IF sLive[TheSession]
       THEN /\ sShare' = [sShare EXCEPT ![TheSession] = FALSE]
            /\ Goto(User, "ssMount")
       ELSE /\ Goto(User, "ready")
            /\ UNCHANGED sShare
    /\ UNCHANGED <<sessionIdleVars, tStall, sConn, sLive>>

\* SetShare 282-292: Umount of the old share and Mount, without the mutex
SMount ==
    /\ tpc[User] = "ssMount"
    /\ SOpEnds
    /\ \E ok \in BOOLEAN :
         /\ ok => (~tStall[User] /\ sConn[TheSession] = "open")
         /\ Goto(User, IF ok THEN "ssLock2" ELSE "ready")
    /\ tStall' = [tStall EXCEPT ![User] = FALSE]
    /\ UNCHANGED <<sessionIdleVars, sessVars>>

\* SetShare 294-295: s.mu.Lock() after the Mount
SSetShareLock2 ==
    /\ tpc[User] = "ssLock2"
    /\ ~sMu[TheSession]
    /\ sMu' = [sMu EXCEPT ![TheSession] = TRUE]
    /\ Goto(User, "ssIn2")
    /\ UNCHANGED <<sessionIdleVars, tStall, sConn, sLive, sShare>>

\* SetShare 297-307: a session closed during the Mount gives the share up
\* with share.Umount() under the mutex; otherwise the share is stored
SSetShareStore ==
    /\ tpc[User] = "ssIn2"
    /\ IF sLive[TheSession]
       THEN /\ sShare' = [sShare EXCEPT ![TheSession] = TRUE]
            /\ sMu' = [sMu EXCEPT ![TheSession] = FALSE]
            /\ Goto(User, "ready")
       ELSE /\ Goto(User, "ssUmount")
            /\ UNCHANGED <<sShare, sMu>>
    /\ UNCHANGED <<sessionIdleVars, tStall, sConn, sLive>>

\* SetShare 298-300: share.Umount() has ended, the deferred Unlock runs
SSetShareUmount ==
    /\ tpc[User] = "ssUmount"
    /\ SOpEnds
    /\ sMu' = [sMu EXCEPT ![TheSession] = FALSE]
    /\ tStall' = [tStall EXCEPT ![User] = FALSE]
    /\ Goto(User, "ready")
    /\ UNCHANGED <<sessionIdleVars, sConn, sLive, sShare>>

\* ListContents 328-333: the check of the state and the Unlock
SListCheck ==
    /\ tpc[User] = "lcIn"
    /\ sMu' = [sMu EXCEPT ![TheSession] = FALSE]
    /\ Goto(User, IF sShare[TheSession] /\ sLive[TheSession]
                  THEN "lcRead" ELSE "ready")
    /\ UNCHANGED <<sessionIdleVars, tStall, sConn, sLive, sShare>>

\* ListContents 346-371: the directory is read without the mutex
SListRead ==
    /\ tpc[User] = "lcRead"
    /\ SOpEnds
    /\ tStall' = [tStall EXCEPT ![User] = FALSE]
    /\ Goto(User, "ready")
    /\ UNCHANGED <<sessionIdleVars, sessVars>>

\* Close 150-168: Umount, Logoff and conn.Close() under the mutex, the
\* fields are cleared, the deferred Unlock runs
SClose ==
    /\ tpc[User] = "clIn"
    /\ ~CloseTalks(TheSession) \/ ~tStall[User]
    /\ sConn' = [sConn EXCEPT ![TheSession] = "nil"]
    /\ sLive' = [sLive EXCEPT ![TheSession] = FALSE]
    /\ sShare' = [sShare EXCEPT ![TheSession] = FALSE]
    /\ sMu' = [sMu EXCEPT ![TheSession] = FALSE]
    /\ tStall' = [tStall EXCEPT ![User] = FALSE]
    /\ Goto(User, "closed")
    /\ UNCHANGED sessionIdleVars

\* ForceClose with s.mu.Lock() in the place of TryLock()
SForceCloseLock ==
    /\ tpc[Closer] \in {"fIdle", "fRet"}
    /\ ~sMu[TheSession]
    /\ Goto(Closer, "fIn")
    /\ sMu' = [sMu EXCEPT ![TheSession] = TRUE]
    /\ UNCHANGED <<sessionIdleVars, tStall, sConn, sLive, sShare>>

\* ForceClose 176: s.mu.TryLock(), which never waits
SForceCloseTry ==
    /\ tpc[Closer] \in {"fIdle", "fRet"}
    /\ IF sMu[TheSession]
       THEN /\ Goto(Closer, "fBusy")
            /\ UNCHANGED sMu
       ELSE /\ Goto(Closer, "fIn")
            /\ sMu' = [sMu EXCEPT ![TheSession] = TRUE]
    /\ UNCHANGED <<sessionIdleVars, tStall, sConn, sLive, sShare>>

\* ForceClose 177-195: with the mutex, the socket is closed and the fields
\* are cleared
SForceCloseLocked ==
    /\ tpc[Closer] = "fIn"
    /\ sConn' = [sConn EXCEPT ![TheSession] = "nil"]
    /\ sLive' = [sLive EXCEPT ![TheSession] = FALSE]
    /\ sShare' = [sShare EXCEPT ![TheSession] = FALSE]
    /\ sMu' = [sMu EXCEPT ![TheSession] = FALSE]
    /\ Goto(Closer, "fRet")
    /\ UNCHANGED <<sessionIdleVars, tStall>>

\* ForceClose 198-214: without the mutex, only the socket s.conn points to
\* is closed
SForceCloseBusy ==
    /\ tpc[Closer] = "fBusy"
    /\ sConn' = [sConn EXCEPT ![TheSession] = IF @ = "open" THEN "dead" ELSE @]
    /\ Goto(Closer, "fRet")
    /\ UNCHANGED <<sessionIdleVars, tStall, sLive, sShare, sMu>>

SessionInit ==
    /\ SchedInit
    /\ WorkerInit
    /\ RightsIdle
    /\ TraverseIdle
    /\ ExportIdle
    /\ SnapIdle
    /\ RulesIdle
    /\ RunsIdle
    /\ StoreIdle
    /\ CkIdle
    /\ GraphIdle
    /\ enabled = FALSE
    /\ processedTargets = {}
    /\ saveChan = 0
    /\ tpc = [t \in Threads0 |-> IF t = User THEN "new"
                                 ELSE IF t = Closer THEN "fIdle" ELSE "idle"]
    /\ tSess = [t \in Threads0 |-> IF t = User THEN TheSession ELSE 0]
    /\ tNext = [t \in Threads0 |-> "idle"]
    /\ tStall = [t \in Threads0 |-> FALSE]
    /\ tFlag = FALSE
    /\ tTimer = "stopped"
    /\ tTicker = "nil"
    /\ tSem = 0
    /\ poolMu = Free
    /\ connections = <<>>
    /\ activeConnections = {TheSession}
    /\ sConn = [x \in Sessions |-> "nil"]
    /\ sLive = [x \in Sessions |-> FALSE]
    /\ sShare = [x \in Sessions |-> FALSE]
    /\ sMu = [x \in Sessions |-> FALSE]

SessionNext ==
    \/ SPeerStall
    \/ SConnectDial
    \/ SConnectAuth
    \/ SConnectSet
    \/ SLock
    \/ SSetShareCheck
    \/ SMount
    \/ SSetShareLock2
    \/ SSetShareStore
    \/ SSetShareUmount
    \/ SListCheck
    \/ SListRead
    \/ SClose
    \/ SForceCloseTry
    \/ SForceCloseLocked
    \/ SForceCloseBusy

SessionSpec == SessionInit /\ [][SessionNext]_vars

(***************************************************************************)
(* CkSpec: run() with a checkpoint file (main.go 214-234, 299-313, 334,    *)
(* 364-370, 381-382, 430-440), the task of Manager.Start, and a kill of    *)
(* the process at any point followed by a restart with the same            *)
(* --checkpoint flag.  The host workers are reduced to the call of         *)
(* MarkTargetProcessed each of them ends with.                             *)
(***************************************************************************)
ckIdleVars == <<schedPc, idx, stopChan, semaphore, threads, workerVars, rightsVars,
                graphVars, timeoutVars,
    storeVars,
    runVars,
    rulesVars,
    snapVars,
    exportVars,
    traverseVars>>

\* the targets of a sequence
TargetsOf(s) == {s[i] : i \in 1..Len(s)}

\* run() without the restore of main.go 219-234
CkHandleResumeFresh ==
    /\ mainPc = "resume"
    /\ mainPc' = "filter"
    /\ UNCHANGED <<ckIdleVars, targetsToProcess, cpVars, ckResume, ckRuns,
                   ckInterval, ckStop, ckPc, ckFinal, ckSnapshot, ckTmp, ckPath,
                   ckCoalesced>>

\* main.go 219-234: with --resume and a file at the path, Load and
\* RestoreFrom; Load fails on a file that is no complete JSON document
CkHandleResume ==
    /\ mainPc = "resume"
    /\ IF ckResume /\ ckPath.exists
       THEN IF ckPath.complete
            THEN /\ processedTargets' = ckPath.processed
                 /\ mainPc' = "filter"
            ELSE /\ mainPc' = "failed"
                 /\ UNCHANGED processedTargets
       ELSE /\ mainPc' = "filter"
            /\ UNCHANGED processedTargets
    /\ UNCHANGED <<ckIdleVars, targetsToProcess, enabled, saveChan, ckResume, ckRuns,
                   ckInterval, ckStop, ckPc, ckFinal, ckSnapshot, ckTmp, ckPath,
                   ckCoalesced>>

\* main.go 299-313
CkFilter ==
    /\ mainPc = "filter"
    /\ targetsToProcess' = FilterTargets(loadedTargets)
    /\ mainPc' = "start"
    /\ UNCHANGED <<ckIdleVars, cpVars, ckResume, ckRuns, ckInterval, ckStop, ckPc,
                   ckFinal, ckSnapshot, ckTmp, ckPath, ckCoalesced>>

\* Manager.Start 100-124: no task unless enabled with a positive interval
CkStart ==
    /\ mainPc = "start"
    /\ ckPc' = IF ~enabled \/ ckInterval <= 0 THEN "none" ELSE "select"
    /\ mainPc' = "scan"
    /\ UNCHANGED <<ckIdleVars, targetsToProcess, cpVars, ckResume, ckRuns, ckInterval,
                   ckStop, ckFinal, ckSnapshot, ckTmp, ckPath, ckCoalesced>>

\* main.go 364-370: a host worker ends with MarkTargetProcessed
CkMark(t) ==
    /\ mainPc = "scan"
    /\ t \in TargetsOf(targetsToProcess)
    /\ t \notin processedTargets
    /\ processedTargets' = MarkTargetProcessed(t)
    /\ UNCHANGED <<ckIdleVars, targetsToProcess, enabled, saveChan, ckVars>>

\* Manager.TriggerSave 136-145, called any number of times
CkTrigger ==
    /\ mainPc = "scan"
    /\ saveChan = 0 \/ ckCoalesced < MaxCoalesced
    /\ saveChan' = TriggerSave(saveChan)
    /\ ckCoalesced' = IF enabled /\ saveChan' = saveChan THEN ckCoalesced + 1
                      ELSE ckCoalesced
    /\ UNCHANGED <<ckIdleVars, targetsToProcess, enabled, processedTargets, mainPc,
                   ckResume, ckRuns, ckInterval, ckStop, ckPc, ckFinal, ckSnapshot,
                   ckTmp, ckPath>>

\* main.go 373, 382 and Manager.Stop 127-131: after wg.Wait, every worker
\* launched has marked its target; close(m.stopChan)
CkStopCall ==
    /\ mainPc = "scan"
    /\ TargetsOf(targetsToProcess) \subseteq processedTargets
    /\ ckStop' = enabled
    /\ mainPc' = "stopping"
    /\ UNCHANGED <<ckIdleVars, targetsToProcess, cpVars, ckResume, ckRuns, ckInterval,
                   ckPc, ckFinal, ckSnapshot, ckTmp, ckPath, ckCoalesced>>

\* Manager.Stop 132: m.wg.Wait()
CkStopReturn ==
    /\ mainPc = "stopping"
    /\ ckPc \in {"none", "exited"}
    /\ mainPc' = "stopped"
    /\ UNCHANGED <<ckIdleVars, targetsToProcess, cpVars, ckResume, ckRuns, ckInterval,
                   ckStop, ckPc, ckFinal, ckSnapshot, ckTmp, ckPath, ckCoalesced>>

\* main.go 430-440: the checkpoint file is deleted after a complete scan
CkCleanup ==
    /\ mainPc = "stopped"
    /\ ckPath' = IF \/ enabled /\ Len(targetsToProcess) = 0
                    \/ Cardinality(processedTargets) = Len(loadedTargets)
                 THEN NoFile ELSE ckPath
    /\ mainPc' = "done"
    /\ UNCHANGED <<ckIdleVars, targetsToProcess, cpVars, ckResume, ckRuns, ckInterval,
                   ckStop, ckPc, ckFinal, ckSnapshot, ckTmp, ckCoalesced>>

\* Manager.Start 113-116: case <-m.stopChan
CkSelectStop ==
    /\ ckPc = "select"
    /\ ckStop
    /\ ckPc' = "copy"
    /\ ckFinal' = TRUE
    /\ UNCHANGED <<ckIdleVars, targetsToProcess, cpVars, mainPc, ckResume, ckRuns,
                   ckInterval, ckStop, ckSnapshot, ckTmp, ckPath, ckCoalesced>>

\* Manager.Start 117-118: case <-ticker.C
CkSelectTick ==
    /\ ckPc = "select"
    /\ ckPc' = "copy"
    /\ ckFinal' = FALSE
    /\ UNCHANGED <<ckIdleVars, targetsToProcess, cpVars, mainPc, ckResume, ckRuns,
                   ckInterval, ckStop, ckSnapshot, ckTmp, ckPath, ckCoalesced>>

\* Manager.Start 119-120: case <-m.saveChan
CkSelectSave ==
    /\ ckPc = "select"
    /\ saveChan > 0
    /\ saveChan' = saveChan - 1
    /\ ckPc' = "copy"
    /\ ckFinal' = FALSE
    /\ UNCHANGED <<ckIdleVars, targetsToProcess, enabled, processedTargets, mainPc,
                   ckResume, ckRuns, ckInterval, ckStop, ckSnapshot, ckTmp, ckPath,
                   ckCoalesced>>

\* saveCheckpoint 153-158: copy the processed set under the read lock
CkCopy ==
    /\ ckPc = "copy"
    /\ ckSnapshot' = processedTargets
    /\ ckPc' = "open"
    /\ UNCHANGED <<ckIdleVars, targetsToProcess, cpVars, mainPc, ckResume, ckRuns,
                   ckInterval, ckStop, ckFinal, ckTmp, ckPath, ckCoalesced>>

\* os.WriteFile with the checkpoint path itself in the place of tempFile
CkWriteOpenInPlace ==
    /\ ckPc = "open"
    /\ ckPath' = Truncated
    /\ ckPc' = "write"
    /\ UNCHANGED <<ckIdleVars, targetsToProcess, cpVars, mainPc, ckResume, ckRuns,
                   ckInterval, ckStop, ckFinal, ckSnapshot, ckTmp, ckCoalesced>>

\* saveCheckpoint 181-182: os.WriteFile(tempFile) creates or truncates
CkWriteOpen ==
    /\ ckPc = "open"
    /\ ckTmp' = Truncated
    /\ ckPc' = "write"
    /\ UNCHANGED <<ckIdleVars, targetsToProcess, cpVars, mainPc, ckResume, ckRuns,
                   ckInterval, ckStop, ckFinal, ckSnapshot, ckPath, ckCoalesced>>

\* saveCheckpoint 182: os.WriteFile(tempFile) has written the data
CkWriteData ==
    /\ ckPc = "write"
    /\ ckTmp' = Written(ckSnapshot)
    /\ ckPc' = "rename"
    /\ UNCHANGED <<ckIdleVars, targetsToProcess, cpVars, mainPc, ckResume, ckRuns,
                   ckInterval, ckStop, ckFinal, ckSnapshot, ckPath, ckCoalesced>>

\* saveCheckpoint 186-192: os.Rename(tempFile, m.filepath); Start 116: the
\* task returns after the final save
CkRename ==
    /\ ckPc = "rename"
    /\ ckPath' = ckTmp
    /\ ckTmp' = NoFile
    /\ ckPc' = IF ckFinal THEN "exited" ELSE "select"
    /\ UNCHANGED <<ckIdleVars, targetsToProcess, cpVars, mainPc, ckResume, ckRuns,
                   ckInterval, ckStop, ckFinal, ckSnapshot, ckCoalesced>>

\* the process is killed: its memory is gone, the files stay as they are
CkCrash ==
    /\ mainPc \in {"resume", "filter", "start", "scan", "stopping", "stopped"}
    /\ mainPc' = "crashed"
    /\ ckPc' = "dead"
    /\ UNCHANGED <<ckIdleVars, targetsToProcess, cpVars, ckResume, ckRuns, ckInterval,
                   ckStop, ckFinal, ckSnapshot, ckTmp, ckPath, ckCoalesced>>

\* the same command line again, with or without --resume: NewManager 51-60
CkRestart ==
    /\ mainPc = "crashed"
    /\ ckRuns < MaxRestarts
    /\ ckRuns' = ckRuns + 1
    /\ ckResume' \in BOOLEAN
    /\ mainPc' = "resume"
    /\ processedTargets' = {}
    /\ saveChan' = 0
    /\ targetsToProcess' = <<>>
    /\ ckStop' = FALSE
    /\ ckPc' = "none"
    /\ ckFinal' = FALSE
    /\ ckSnapshot' = {}
    /\ ckCoalesced' = 0
    /\ UNCHANGED <<ckIdleVars, enabled, ckInterval, ckTmp, ckPath>>

\* run() with --checkpoint, any interval, with or without --resume, and no
\* file at the path yet
CkInit ==
    /\ SchedInit
    /\ WorkerInit
    /\ RightsIdle
    /\ TraverseIdle
    /\ ExportIdle
    /\ SnapIdle
    /\ RulesIdle
    /\ RunsIdle
    /\ StoreIdle
    /\ GraphIdle
    /\ TimeoutIdle
    /\ enabled = TRUE
    /\ processedTargets = {}
    /\ saveChan = 0
    /\ mainPc = "resume"
    /\ ckResume \in BOOLEAN
    /\ ckRuns = 0
    /\ ckInterval \in 0..MaxInterval
    /\ ckStop = FALSE
    /\ ckPc = "none"
    /\ ckFinal = FALSE
    /\ ckSnapshot = {}
    /\ ckCoalesced = 0
    /\ ckTmp = NoFile
    /\ ckPath = NoFile

CkNext ==
    \/ CkHandleResume
    \/ CkFilter
    \/ CkStart
    \/ \E t \in Targets : CkMark(t)
    \/ CkTrigger
    \/ CkStopCall
    \/ CkStopReturn
    \/ CkCleanup
    \/ CkSelectStop
    \/ CkSelectTick
    \/ CkSelectSave
    \/ CkCopy
    \/ CkWriteOpen
    \/ CkWriteData
    \/ CkRename
    \/ CkCrash
    \/ CkRestart

CkSpec == CkInit /\ [][CkNext]_vars

(***************************************************************************)
(* StoreSpec: callers of the graph store.  AddNode is followed step by     *)
(* step through its mutex; AddEdge, RestoreNodesAndEdges and the export    *)
(* hold the mutex from their first to their last access of the store      *)
(* state and are taken as one step each.  The export is the last call.    *)
(***************************************************************************)
storeIdleVars == <<schedVars, cpVars, workerVars, rightsVars, graphVars,
                   timeoutVars, ckVars,
    runVars,
    rulesVars,
    snapVars,
    exportVars,
    traverseVars>>

\* calls of the store that have not returned
StInFlight == {w \in StCallers : stPc[w] # "idle"}

\* AddNode is called with a node of the id
StAddNodeCall(w, id) ==
    /\ ~stArtifact.written
    /\ stPc[w] = "idle"
    /\ Len(stNodeFile) + Cardinality(StInFlight) < MaxLines
    /\ stPc' = [stPc EXCEPT ![w] = "anLock"]
    /\ stArg' = [stArg EXCEPT ![w] = id]
    /\ UNCHANGED <<storeIdleVars, stIDs, stEdgeCount, stNodeFile, stEdgeFile, stMu,
                   stArtifact>>

\* AddNode 94: g.mu.Lock()
StAddNodeLock(w) ==
    /\ stPc[w] = "anLock"
    /\ stMu = 0
    /\ stMu' = w
    /\ stPc' = [stPc EXCEPT ![w] = "anCheck"]
    /\ UNCHANGED <<storeIdleVars, stIDs, stEdgeCount, stNodeFile, stEdgeFile, stArg,
                   stArtifact>>

\* AddNode with the test of line 97 left out
StAddNodeCheckAlways(w) ==
    /\ stPc[w] = "anCheck"
    /\ stPc' = [stPc EXCEPT ![w] = "anInsert"]
    /\ UNCHANGED <<storeIdleVars, stIDs, stEdgeCount, stNodeFile, stEdgeFile, stMu,
                   stArg, stArtifact>>

\* AddNode 97: is the id in g.nodeIDs
StAddNodeCheck(w) ==
    /\ stPc[w] = "anCheck"
    /\ stPc' = [stPc EXCEPT ![w] = IF stArg[w] \in stIDs THEN "anDup" ELSE "anInsert"]
    /\ UNCHANGED <<storeIdleVars, stIDs, stEdgeCount, stNodeFile, stEdgeFile, stMu,
                   stArg, stArtifact>>

\* AddNode 98 and the deferred Unlock of 95
StAddNodeDup(w) ==
    /\ stPc[w] = "anDup"
    /\ stMu' = 0
    /\ stPc' = [stPc EXCEPT ![w] = "idle"]
    /\ UNCHANGED <<storeIdleVars, stIDs, stEdgeCount, stNodeFile, stEdgeFile, stArg,
                   stArtifact>>

\* AddNode 100-101 and the deferred Unlock of 95
StAddNodeInsert(w) ==
    /\ stPc[w] = "anInsert"
    /\ stIDs' = stIDs \cup {stArg[w]}
    /\ stNodeFile' = Append(stNodeFile, stArg[w])
    /\ stMu' = 0
    /\ stPc' = [stPc EXCEPT ![w] = "idle"]
    /\ UNCHANGED <<storeIdleVars, stEdgeCount, stEdgeFile, stArg, stArtifact>>

\* AddEdge 114-119
StAddEdge(w) ==
    /\ ~stArtifact.written
    /\ stPc[w] = "idle"
    /\ stMu = 0
    /\ Len(stEdgeFile) < MaxLines
    /\ stEdgeFile' = Append(stEdgeFile, StEdge)
    /\ stEdgeCount' = stEdgeCount + 1
    /\ UNCHANGED <<storeIdleVars, stIDs, stNodeFile, stMu, stPc, stArg, stArtifact>>

\* RestoreNodesAndEdges 450-475, called by run() before any worker runs
\* (main.go 228) with the lists decoded from the checkpoint file
StRestore(nodes, edges) ==
    /\ ~stArtifact.written
    /\ StInFlight = {}
    /\ stMu = 0
    /\ stIDs' = {nodes[i] : i \in 1..Len(nodes)}
    /\ stEdgeCount' = Len(edges)
    /\ stNodeFile' = nodes
    /\ stEdgeFile' = edges
    /\ UNCHANGED <<storeIdleVars, stMu, stPc, stArg, stArtifact>>

\* ExportToFileWithProgress 204-270 with streamJSON and streamArray: every
\* line of the two files becomes one element of its array; run() calls it
\* after the workers have ended (main.go 373, 412)
StExport ==
    /\ ~stArtifact.written
    /\ StInFlight = {}
    /\ stMu = 0
    /\ stArtifact' = [written |-> TRUE, nodes |-> stNodeFile, edges |-> stEdgeFile]
    /\ UNCHANGED <<storeIdleVars, stIDs, stEdgeCount, stNodeFile, stEdgeFile, stMu,
                   stPc, stArg>>

\* NewOpenGraph 39-59
StoreInit ==
    /\ SchedInit
    /\ WorkerInit
    /\ RightsIdle
    /\ TraverseIdle
    /\ ExportIdle
    /\ SnapIdle
    /\ RulesIdle
    /\ RunsIdle
    /\ GraphIdle
    /\ TimeoutIdle
    /\ CkIdle
    /\ enabled = FALSE
    /\ processedTargets = {}
    /\ saveChan = 0
    /\ stIDs = {}
    /\ stEdgeCount = 0
    /\ stNodeFile = <<>>
    /\ stEdgeFile = <<>>
    /\ stMu = 0
    /\ stPc = [w \in StCallers |-> "idle"]
    /\ stArg = [w \in StCallers |-> 0]
    /\ stArtifact = NoArtifact

StoreNext ==
    \/ StExport
    \/ \E nodes \in SeqsUpTo(StIds, MaxRestore), edges \in SeqsUpTo({StEdge}, MaxRestore) :
         StRestore(nodes, edges)
    \/ \E w \in StCallers :
         \/ \E id \in StIds : StAddNodeCall(w, id)
         \/ StAddNodeLock(w)
         \/ StAddNodeCheck(w)
         \/ StAddNodeDup(w)
         \/ StAddNodeInsert(w)
         \/ StAddEdge(w)

StoreSpec == StoreInit /\ [][StoreNext]_vars

(***************************************************************************)
(* RunsSpec: the share sub-task of share "docs" (worker.go processShare,   *)
(* contents.go collectContentsAtDepth at the root of the share) in each of *)
(* the runs, with the records in the order the store receives them.  The   *)
(* rules allow everything and the directory "d" of the peer is empty.      *)
(***************************************************************************)
runsIdleVars == <<schedVars, cpVars, workerVars, rightsVars, graphVars,
                  timeoutVars, ckVars, storeVars,
    rulesVars,
    snapVars,
    exportVars,
    traverseVars>>

\* the orders in which a range loop over a Go map can visit the set
Orderings(S) ==
    {o \in [1..Cardinality(S) -> S] : \A i, j \in 1..Cardinality(S) : o[i] = o[j] => i = j}

\* AddRightsToGraph 657-668: range over the SIDs of the rights and, for a
\* SID, its kinds in the order GetShareRightsForMask / GetNTFSRightsForMask
\* appended them, itself a range over a map (part_002 103-122)
RightsOrders(rights) ==
    {o \in Orderings(BagToSet(rights)) :
        \A i, j, k \in 1..Len(o) : (i < k /\ k < j /\ o[i][1] = o[j][1]) => o[k][1] = o[i][1]}

\* the edges AddRightsToGraph builds, in the order o
RightsEdges(elementID, o) == [i \in 1..Len(o) |-> NewEdge(Str(o[i][1]), elementID, o[i][2])]

\* contents.go 176-181, 271-277: the node of an entry of the share root
EntryNode(name) ==
    IF IsDir(name) THEN DirNode("docs", <<name>>) ELSE FileNode("docs", <<name>>)

\* worker.go 379-394: SetShare, CollectShareRights and the first
\* AddPathToGraph (part_006 554-597): host node, HostsNetworkShare, share
\* node, share rights, HasNetworkShare
RnShare(r) ==
    /\ rnPc[r] = "share"
    /\ \E o \in RightsOrders(CollectShareRights(PeerShareSD("docs"), PeerRootSD("docs"))) :
         /\ rnNodes' = [rnNodes EXCEPT ![r] = @ \o <<HostNode, ShareNode("docs")>>]
         /\ rnEdges' = [rnEdges EXCEPT ![r] =
               @ \o <<[NewEdge(Str(ToUpper(HostNode.s)), HostNode, "HostsNetworkShare")
                          EXCEPT !.startMatchBy = "name", !.endMatchBy = "id"]>>
                 \o RightsEdges(ShareNode("docs"), o)
                 \o <<NewEdge(HostNode, ShareNode("docs"), "HasNetworkShare")>>]
    /\ rnTodo' = [rnTodo EXCEPT ![r] = PeerNames]
    /\ rnPc' = [rnPc EXCEPT ![r] = "walk"]
    /\ UNCHANGED runsIdleVars

\* contents.go 158-303: one iteration of "for name, info := range contents"
\* with CollectNTFSRights and AddPathToGraph (part_006 623-637): element
\* node, its rights, Contains
RnEntry(r, name) ==
    /\ rnPc[r] = "walk"
    /\ name \in rnTodo[r]
    /\ \E o \in RightsOrders(CollectNTFSRights(PeerFileSD("docs", <<name>>))) :
         /\ rnNodes' = [rnNodes EXCEPT ![r] = Append(@, EntryNode(name))]
         /\ rnEdges' = [rnEdges EXCEPT ![r] =
               @ \o RightsEdges(EntryNode(name), o)
                 \o <<NewEdge(ShareNode("docs"), EntryNode(name), "Contains")>>]
    /\ rnTodo' = [rnTodo EXCEPT ![r] = @ \ {name}]
    /\ UNCHANGED <<runsIdleVars, rnPc>>

\* contents.go 306-347: the range loop is over, the directory found is
\* empty, the sub-task returns
RnEnd(r) ==
    /\ rnPc[r] = "walk"
    /\ rnTodo[r] = {}
    /\ rnPc' = [rnPc EXCEPT ![r] = "done"]
    /\ UNCHANGED <<runsIdleVars, rnTodo, rnNodes, rnEdges>>

RunsInit ==
    /\ SchedInit
    /\ WorkerInit
    /\ RightsIdle
    /\ TraverseIdle
    /\ ExportIdle
    /\ SnapIdle
    /\ RulesIdle
    /\ CkIdle
    /\ StoreIdle
    /\ GraphIdle
    /\ TimeoutIdle
    /\ enabled = FALSE
    /\ processedTargets = {}
    /\ saveChan = 0
    /\ rnPc = [r \in Runs |-> "share"]
    /\ rnTodo = [r \in Runs |-> {}]
    /\ rnNodes = [r \in Runs |-> <<>>]
    /\ rnEdges = [r \in Runs |-> <<>>]

RunsNext ==
    \E r \in Runs :
        \/ RnShare(r)
        \/ \E name \in PeerNames : RnEntry(r, name)
        \/ RnEnd(r)

RunsSpec == RunsInit /\ [][RunsNext]_vars

(***************************************************************************)
(* RulesSpec: an evaluator made from a parsed program, driven the way      *)
(* processShare and collectContentsAtDepth drive it.                       *)
(***************************************************************************)
rulesIdleVars == <<schedVars, cpVars, workerVars, rightsVars, graphVars,
                   timeoutVars, ckVars, storeVars, runVars,
    snapVars,
    exportVars,
    traverseVars>>

\* evaluate with the rules taken from the last to the first
evaluateLastFirst(scope, ctx) ==
    LET reversed == [i \in 1..Len(ruRules) |-> ruRules[Len(ruRules) + 1 - i]]
    IN IF EvaluateRules(reversed, scope, ctx, DefaultAllow(ruRules)) THEN "ALLOW" ELSE "DENY"

\* part_000 135-163 evaluate
evaluate(scope, ctx) ==
    IF EvaluateRules(ruRules, scope, ctx, DefaultAllow(ruRules)) THEN "ALLOW" ELSE "DENY"

\* part_000 82-84 SetShare (worker.go 337)
RuSetShare(share) ==
    /\ ruCtx.Share # share
    /\ ruCtx' = [ruCtx EXCEPT !.Share = share]
    /\ ruOut' = "none"
    /\ UNCHANGED <<rulesIdleVars, ruRules, ruScope>>

\* part_000 97-99 SetDepth (contents.go 135)
RuSetDepth(depth) ==
    /\ ruCtx.Depth # depth
    /\ ruCtx' = [ruCtx EXCEPT !.Depth = depth]
    /\ ruOut' = "none"
    /\ UNCHANGED <<rulesIdleVars, ruRules, ruScope>>

\* part_000 107-117 CanExplore of a share
RuCanExploreShare(share) ==
    /\ ruCtx' = [ruCtx EXCEPT !.Share = share]
    /\ ruScope' = "EXPLORATION"
    /\ ruOut' = evaluate("EXPLORATION", ruCtx')
    /\ UNCHANGED <<rulesIdleVars, ruRules>>

\* part_000 107-117 CanExplore of a directory
RuCanExploreDir(dir) ==
    /\ ruCtx' = [ruCtx EXCEPT !.Directory = dir]
    /\ ruScope' = "EXPLORATION"
    /\ ruOut' = evaluate("EXPLORATION", ruCtx')
    /\ UNCHANGED <<rulesIdleVars, ruRules>>

\* part_000 120-132 CanProcess of a file
RuCanProcessFile(file) ==
    /\ ruCtx' = [ruCtx EXCEPT !.File = file]
    /\ ruScope' = "PROCESSING"
    /\ ruOut' = evaluate("PROCESSING", ruCtx')
    /\ UNCHANGED <<rulesIdleVars, ruRules>>

\* part_000 120-132 CanProcess of a directory
RuCanProcessDir(dir) ==
    /\ ruCtx' = [ruCtx EXCEPT !.Directory = dir]
    /\ ruScope' = "PROCESSING"
    /\ ruOut' = evaluate("PROCESSING", ruCtx')
    /\ UNCHANGED <<rulesIdleVars, ruRules>>

\* NewEvaluator on the program of the test or on any program of at most
\* MaxRules rules of the pool
RulesInit ==
    /\ SchedInit
    /\ WorkerInit
    /\ RightsIdle
    /\ TraverseIdle
    /\ ExportIdle
    /\ SnapIdle
    /\ CkIdle
    /\ StoreIdle
    /\ RunsIdle
    /\ GraphIdle
    /\ TimeoutIdle
    /\ enabled = FALSE
    /\ processedTargets = {}
    /\ saveChan = 0
    /\ ruRules \in SeqsUpTo(RulePool, MaxRules) \cup {ComplexRules}
    /\ ruCtx = NewContext
    /\ ruScope = ""
    /\ ruOut = "none"

RulesNext ==
    \/ \E share \in RuShares : RuSetShare(share) \/ RuCanExploreShare(share)
    \/ \E depth \in RuDepths : RuSetDepth(depth)
    \/ \E dir \in RuDirs : RuCanExploreDir(dir) \/ RuCanProcessDir(dir)
    \/ \E file \in RuFiles : RuCanProcessFile(file)

RulesSpec == RulesInit /\ [][RulesNext]_vars

\* NewEvaluator on a program of one rule, DENY IF <comparison>
ComparisonInit ==
    /\ SchedInit
    /\ WorkerInit
    /\ RightsIdle
    /\ TraverseIdle
    /\ ExportIdle
    /\ SnapIdle
    /\ CkIdle
    /\ StoreIdle
    /\ RunsIdle
    /\ GraphIdle
    /\ TimeoutIdle
    /\ enabled = FALSE
    /\ processedTargets = {}
    /\ saveChan = 0
    /\ ruRules \in {<<ActionRule("DENY", "", c)>> : c \in Comparisons}
    /\ ruCtx = NewContext
    /\ ruScope = ""
    /\ ruOut = "none"

ComparisonSpec == ComparisonInit /\ [][RulesNext]_vars

(***************************************************************************)
(* SnapSpec: host workers emit their records into the disk-backed store    *)
(* (opengraph.go 81-119) and mark their target (main.go 364-370) while the *)
(* task of the checkpoint manager saves (part_009 148-193, opengraph.go    *)
(* 408-447); the process may be killed and started again.                  *)
(***************************************************************************)
snapIdleVars == <<schedVars, saveChan, workerVars, rightsVars, graphVars,
                  timeoutVars, ckVars, storeVars, runVars, rulesVars,
    exportVars,
    traverseVars>>

\* main.go 362-365: the go statement of a host worker
SnLaunch(t) ==
    /\ snPc[t] = "idle"
    /\ ~IsTargetProcessed(t)
    /\ snPc' = [snPc EXCEPT ![t] = "run"]
    /\ UNCHANGED <<snapIdleVars, enabled, processedTargets, snEmitted, snNodeBuf,
                   snEdgeBuf, snNodeFile, snEdgeFile, svPc, svCp, svFile, snRuns>>

\* opengraph.go 93-119: AddNode or AddEdge appends the record to its buffer
\* under g.mu; a node whose id is recorded is left out
SnEmit(t) ==
    /\ snPc[t] = "run"
    /\ Cardinality(snEmitted[t]) < MaxEmits
    /\ LET r == <<t, Cardinality(snEmitted[t]) + 1>>
       IN /\ snEmitted' = [snEmitted EXCEPT ![t] = @ \cup {r}]
          /\ IF IsNodeRecord(r)
             THEN /\ snNodeBuf' = IF r \in snNodeFile \cup snNodeBuf THEN snNodeBuf
                                  ELSE snNodeBuf \cup {r}
                  /\ UNCHANGED snEdgeBuf
             ELSE /\ snEdgeBuf' = snEdgeBuf \cup {r}
                  /\ UNCHANGED snNodeBuf
    /\ UNCHANGED <<snapIdleVars, enabled, processedTargets, snPc, snNodeFile,
                   snEdgeFile, svPc, svCp, svFile, snRuns>>

\* bufio.Writer: a full buffer is written to its file
SnBufferFull ==
    /\ snNodeBuf # {} \/ snEdgeBuf # {}
    /\ \E nodes \in BOOLEAN :
         IF nodes
         THEN /\ snNodeBuf # {}
              /\ snNodeFile' = snNodeFile \cup snNodeBuf
              /\ snNodeBuf' = {}
              /\ UNCHANGED <<snEdgeBuf, snEdgeFile>>
         ELSE /\ snEdgeBuf # {}
              /\ snEdgeFile' = snEdgeFile \cup snEdgeBuf
              /\ snEdgeBuf' = {}
              /\ UNCHANGED <<snNodeBuf, snNodeFile>>
    /\ UNCHANGED <<snapIdleVars, enabled, processedTargets, snPc, snEmitted, svPc,
                   svCp, svFile, snRuns>>

\* worker.go 281: ProcessTarget returns after its sub-tasks
SnReturn(t) ==
    /\ snPc[t] = "run"
    /\ snPc' = [snPc EXCEPT ![t] = "returned"]
    /\ UNCHANGED <<snapIdleVars, enabled, processedTargets, snEmitted, snNodeBuf,
                   snEdgeBuf, snNodeFile, snEdgeFile, svPc, svCp, svFile, snRuns>>

\* main.go 369: cpManager.MarkTargetProcessed(t) after ProcessTarget
SnMark(t) ==
    /\ snPc[t] = "returned"
    /\ processedTargets' = MarkTargetProcessed(t)
    /\ snPc' = [snPc EXCEPT ![t] = "exited"]
    /\ UNCHANGED <<snapIdleVars, enabled, snEmitted, snNodeBuf, snEdgeBuf,
                   snNodeFile, snEdgeFile, svPc, svCp, svFile, snRuns>>

\* saveCheckpoint 153-158: the copy of the processed set under the read lock
SnCopy ==
    /\ svPc = "idle"
    /\ svCp' = [NoSavedCheckpoint EXCEPT
                   !.exists = TRUE,
                   !.processed = processedTargets,
                   !.emitted = [t \in Targets |->
                                  IF t \in processedTargets THEN snEmitted[t] ELSE {}]]
    /\ svPc' = "flush"
    /\ UNCHANGED <<snapIdleVars, enabled, processedTargets, snPc, snEmitted,
                   snNodeBuf, snEdgeBuf, snNodeFile, snEdgeFile, svFile, snRuns>>

\* GetNodesAndEdges without the two Flush calls
SnFlushNothing ==
    /\ svPc = "flush"
    /\ svPc' = "nodes"
    /\ UNCHANGED <<snapIdleVars, enabled, processedTargets, snPc, snEmitted,
                   snNodeBuf, snEdgeBuf, snNodeFile, snEdgeFile, svCp, svFile, snRuns>>

\* GetNodesAndEdges 409-416: both buffers are flushed under g.mu
SnFlush ==
    /\ svPc = "flush"
    /\ snNodeFile' = snNodeFile \cup snNodeBuf
    /\ snEdgeFile' = snEdgeFile \cup snEdgeBuf
    /\ snNodeBuf' = {}
    /\ snEdgeBuf' = {}
    /\ svPc' = "nodes"
    /\ UNCHANGED <<snapIdleVars, enabled, processedTargets, snPc, snEmitted, svCp,
                   svFile, snRuns>>

\* GetNodesAndEdges 418-431: the node file is read without the lock
SnReadNodes ==
    /\ svPc = "nodes"
    /\ svCp' = [svCp EXCEPT !.nodes = snNodeFile]
    /\ svPc' = "edges"
    /\ UNCHANGED <<snapIdleVars, enabled, processedTargets, snPc, snEmitted,
                   snNodeBuf, snEdgeBuf, snNodeFile, snEdgeFile, svFile, snRuns>>

\* GetNodesAndEdges 433-446: the edge file is read without the lock
SnReadEdges ==
    /\ svPc = "edges"
    /\ svCp' = [svCp EXCEPT !.edges = snEdgeFile]
    /\ svPc' = "write"
    /\ UNCHANGED <<snapIdleVars, enabled, processedTargets, snPc, snEmitted,
                   snNodeBuf, snEdgeBuf, snNodeFile, snEdgeFile, svFile, snRuns>>

\* saveCheckpoint 174-192: the document replaces the file at the path
SnWrite ==
    /\ svPc = "write"
    /\ svFile' = svCp
    /\ svCp' = NoSavedCheckpoint
    /\ svPc' = "idle"
    /\ UNCHANGED <<snapIdleVars, enabled, processedTargets, snPc, snEmitted,
                   snNodeBuf, snEdgeBuf, snNodeFile, snEdgeFile, snRuns>>

\* the process is killed and started again: main.go 219-234 restores the
\* processed set and the store from the file with --resume, and starts
\* from nothing without it; the workers of the targets left are new
SnRestart ==
    /\ snRuns < MaxKills
    /\ snRuns' = snRuns + 1
    /\ \E resume \in BOOLEAN :
         LET cp == IF resume /\ svFile.exists THEN svFile ELSE NoSavedCheckpoint
         IN /\ processedTargets' = cp.processed
            /\ snNodeBuf' = cp.nodes
            /\ snEdgeBuf' = cp.edges
            /\ snEmitted' = cp.emitted
    /\ snNodeFile' = {}
    /\ snEdgeFile' = {}
    /\ snPc' = [t \in Targets |-> "idle"]
    /\ svPc' = "idle"
    /\ svCp' = NoSavedCheckpoint
    /\ UNCHANGED <<snapIdleVars, enabled, svFile>>

\* run() with --checkpoint and no file at the path
SnapInit ==
    /\ SchedInit
    /\ WorkerInit
    /\ RightsIdle
    /\ TraverseIdle
    /\ ExportIdle
    /\ RulesIdle
    /\ RunsIdle
    /\ StoreIdle
    /\ CkIdle
    /\ GraphIdle
    /\ TimeoutIdle
    /\ enabled = TRUE
    /\ processedTargets = {}
    /\ saveChan = 0
    /\ snPc = [t \in Targets |-> "idle"]
    /\ snEmitted = [t \in Targets |-> {}]
    /\ snNodeBuf = {}
    /\ snEdgeBuf = {}
    /\ snNodeFile = {}
    /\ snEdgeFile = {}
    /\ svPc = "idle"
    /\ svCp = NoSavedCheckpoint
    /\ svFile = NoSavedCheckpoint
    /\ snRuns = 0

SnapNext ==
    \/ \E t \in Targets : SnLaunch(t) \/ SnEmit(t) \/ SnReturn(t) \/ SnMark(t)
    \/ SnBufferFull
    \/ SnCopy
    \/ SnFlush
    \/ SnReadNodes
    \/ SnReadEdges
    \/ SnWrite
    \/ SnRestart

SnapSpec == SnapInit /\ [][SnapNext]_vars

(***************************************************************************)
(* ExportSpec: ExportToFileWithProgress on a filename (opengraph.go        *)
(* 204-270).                                                               *)
(***************************************************************************)
exportIdleVars == <<schedVars, cpVars, workerVars, rightsVars, graphVars,
                    timeoutVars, ckVars, storeVars, runVars, rulesVars, snapVars,
    traverseVars>>

\* opengraph.go 206-225: the counts are taken and the file is created
ExCreate ==
    /\ exPc = "start"
    /\ exPc' = "created"
    /\ UNCHANGED <<exportIdleVars, exFilename, exZip, exEntries>>

\* opengraph.go 227-255: a ZIP archive with one entry of the graph document
ExWriteZip ==
    /\ exPc = "created"
    /\ IsZipName(exFilename)
    /\ exZip' = TRUE
    /\ exEntries' = Append(exEntries, JsonName(exFilename))
    /\ exPc' = "done"
    /\ UNCHANGED <<exportIdleVars, exFilename>>

\* opengraph.go 256-261: the graph document itself
ExWriteJson ==
    /\ exPc = "created"
    /\ ~IsZipName(exFilename)
    /\ exPc' = "done"
    /\ UNCHANGED <<exportIdleVars, exFilename, exZip, exEntries>>

ExportInit ==
    /\ SchedInit
    /\ WorkerInit
    /\ RightsIdle
    /\ TraverseIdle
    /\ SnapIdle
    /\ RulesIdle
    /\ RunsIdle
    /\ StoreIdle
    /\ CkIdle
    /\ GraphIdle
    /\ TimeoutIdle
    /\ enabled = FALSE
    /\ processedTargets = {}
    /\ saveChan = 0
    /\ exFilename \in ExFilenames
    /\ exPc = "start"
    /\ exZip = FALSE
    /\ exEntries = <<>>

ExportNext ==
    \/ ExCreate
    \/ ExWriteZip
    \/ ExWriteJson

ExportSpec == ExportInit /\ [][ExportNext]_vars

(***************************************************************************)
(* Claims                                                                  *)
(***************************************************************************)

\* the ACEs of the descriptor the collector that ran has worked on
UsedAces ==
    IF rOp = "ntfs" THEN rFileSD.Aces
    ELSE IF rOp = "share"
         THEN (IF rShareSD.st = "unavailable" THEN rRootSD.Aces ELSE rShareSD.Aces)
         ELSE <<>>

\* the bit position an edge kind stands for
FlagOfKind(edgeKind) ==
    IF edgeKind \in DOMAIN NTFSRightsMapping THEN NTFSRightsMapping[edgeKind]
    ELSE ShareRightsMapping[edgeKind]

\* C7: no right is derived from an ACE whose type is not ACCESS_ALLOWED:
\* every <<sid, edge kind>> a collector returns, for a share-level descriptor
\* and for a file or directory descriptor alike, is granted by an
\* access-allowed ACE of that SID whose mask has the flag of the kind.
C7_OnlyAllowedAces ==
    \A r \in BagToSet(rRights) :
        \E i \in DOMAIN UsedAces :
            /\ UsedAces[i].AceType = ACCESS_ALLOWED_ACE_TYPE
            /\ UsedAces[i].SID = r[1]
            /\ FlagOfKind(r[2]) \in UsedAces[i].Mask

\* C10: when the share-level descriptor is unavailable and the descriptor of
\* the share's root folder is used instead, the rights are derived with the
\* NTFS table: every edge kind returned is a CanNTFS* kind.
C10_FallbackUsesNTFSTable ==
    (rOp = "share" /\ rShareSD.st = "unavailable") =>
        \A r \in BagToSet(rRights) : r[2] \in DOMAIN NTFSRightsMapping

\* C1: once the stop channel has been closed, the scheduler launches no
\* further host worker: a target that is not started stays not started.
C1_NoLaunchAfterStop ==
    [][stopChan => (\A t \in Targets : wpc[t] = "idle" => wpc'[t] = "idle")]_vars

\* C2: when the scan is over, every target of the scheduler's input that
\* was not in the loaded processed set has been counted once, as a success
\* or as an error.
C2_EveryTargetCounted ==
    schedPc = "done" =>
        results.Success + results.Errors = Len(targetsToProcess)

\* every share sub-task is over and ProcessTarget has returned
GraphDone == gHostPc = "done"

RightsKinds == DOMAIN ShareRightsMapping \cup DOMAIN NTFSRightsMapping

\* C4: for a directory d and its parent p, the sub-tasks emit at most one
\* Contains edge from p to d, also when d was flushed as the current element
\* and is later an entry of the path of its own children.
C4_OneContainsPerDirectory ==
    \A e \in BagToSet(og.edges) :
        (e.kind = "Contains" /\ e.end.k = "DIR") => CopiesIn(e, og.edges) <= 1

\* C5: the final graph holds at most one HasNetworkShare edge from the host
\* to a share, in a fresh run and in a run resumed from a checkpoint saved
\* while the host was being processed.
C5_OneHasNetworkSharePerShare ==
    GraphDone =>
        \A e \in BagToSet(og.edges) :
            e.kind = "HasNetworkShare" => CopiesIn(e, og.edges) <= 1

\* C6: the final graph holds at most one HostsNetworkShare edge for a host,
\* however many of its shares are processed.
C6_OneHostsNetworkSharePerHost ==
    GraphDone =>
        \A e \in BagToSet(og.edges) :
            e.kind = "HostsNetworkShare" => CopiesIn(e, og.edges) <= 1

RECURSIVE RecognizedFlags(_, _)
\* the sum, over the access-allowed ACEs of a DACL that name the SID, of the
\* number of flags of the NTFS table set in the mask
RecognizedFlags(aces, sid) ==
    IF aces = <<>> THEN 0
    ELSE (IF Head(aces).AceType = ACCESS_ALLOWED_ACE_TYPE /\ Head(aces).SID = sid
          THEN Cardinality({edgeKind \in DOMAIN NTFSRightsMapping :
                               NTFSRightsMapping[edgeKind] \in Head(aces).Mask})
          ELSE 0)
         + RecognizedFlags(Tail(aces), sid)

\* the number of edges of the graph from the SID to the element
EdgesFromSid(sid, element) ==
    BagCardinality([e \in {x \in BagToSet(og.edges) :
                              x.start = Str(sid) /\ x.end = element}
                       |-> og.edges[e]])

AllowedSids(aces) ==
    {aces[i].SID : i \in {j \in DOMAIN aces :
        /\ aces[j].AceType = ACCESS_ALLOWED_ACE_TYPE
        /\ aces[j].SID # NoSID
        /\ aces[j].Mask # {}}}

\* C8: in the final graph, for every file and directory that was emitted and
\* every SID that an access-allowed ACE of its descriptor names with a
\* non-empty mask, the edges from the SID to the element are one per
\* recognized flag of those ACEs, no fewer and no more.
C8_EdgesPerAllowedAce ==
    GraphDone =>
        \A n \in og.nodeIDs :
            n.k \in {"DIR", "FILE"} =>
                \A sid \in AllowedSids(PeerFileSD(n.s, n.p).Aces) :
                    EdgesFromSid(sid, n) =
                        RecognizedFlags(PeerFileSD(n.s, n.p).Aces, sid)

\* an endpoint is resolved by name, or is the id of a node of the graph
EndpointHasNode(value, matchBy) == matchBy = "name" \/ value \in og.nodeIDs

\* C9: every edge of the graph has at both endpoints the id of a node of the
\* same graph or match_by = "name"; this includes the start of a rights
\* edge, whose value is a trustee SID.
C9_EveryEndpointHasNode ==
    \A e \in BagToSet(og.edges) :
        /\ EndpointHasNode(e.start, e.startMatchBy)
        /\ EndpointHasNode(e.end, e.endMatchBy)

\* C9, amended: every edge of the graph has at both endpoints the id of a
\* node of the same graph or match_by = "name", except the start of a rights
\* edge, which is a trustee SID for which the graph holds no node and which
\* carries no match_by.
C9_EndpointsExceptTrustee ==
    \A e \in BagToSet(og.edges) :
        /\ EndpointHasNode(e.end, e.endMatchBy)
        /\ IF e.kind \in RightsKinds
           THEN e.startMatchBy = "" /\ e.start \notin og.nodeIDs
           ELSE EndpointHasNode(e.start, e.startMatchBy)

\* a finished crawl whose graph holds a rights edge on a file below a
\* directory, with the Contains edges that lead to the file
C9_Witness ==
    /\ GraphDone
    /\ \E e \in BagToSet(og.edges) :
         e.kind \in RightsKinds /\ e.end.k = "FILE" /\ Len(e.end.p) = 2
    /\ \E e \in BagToSet(og.edges) :
         e.kind = "Contains" /\ e.start.k = "DIR" /\ e.end.k = "FILE"
    /\ \E e \in BagToSet(og.edges) : e.kind = "HostsNetworkShare"

\* C3: with a host timeout configured and a peer that stalls an operation
\* for ever, the host worker returns after the deadline has fired, whatever
\* operation was in flight.  So from the deadline until ProcessTarget has
\* returned, the worker, a sub-task, the timer function or the ticker can
\* always take a step.
C3_WorkerReturnsAfterDeadline ==
    (tFlag /\ tpc[0] # "returned") => ENABLED TimeoutNext

\* a thread that needs a new session finds a session object
SessionsSuffice ==
    \A t \in Threads0 : tpc[t] = "new" => \E x \in Sessions : Unused(x)

\* C11: a share sub-task that waits on the per-host gate when the host's
\* timeout flag is set returns without processing its share and is counted
\* in the skipped-shares counter: the step that ends the waiting sub-task
\* adds one to skippedSharesCount.
C11_WaitingSubTaskCountedSkipped ==
    [][\A t \in Targets : \A s \in ShareIds :
          (spc[t][s] = "waiting" /\ timeoutFlag[t] /\ spc'[t][s] = "done")
              => skippedSharesCount'[t] = skippedSharesCount[t] + 1]_vars

\* the positions at which a thread has a network operation in flight; "auth"
\* is the second half of the connect that "dial" begins
NetPcs == {"ping", "dial", "list", "mount", "desc", "listdir", "fdesc",
           "deadCloseIO", "retCloseIO", "caCloseIO"}

\* the operation thread t is in talks to the peer: a connect always does, a
\* close when it has a share or a session to give up on an open socket, any
\* other operation when the session reports connected on an open socket
TalksToPeer(t) ==
    IF tpc[t] = "dial" THEN TRUE
    ELSE IF tpc[t] \in {"deadCloseIO", "retCloseIO", "caCloseIO"}
    THEN CloseTalks(tSess[t])
    ELSE sLive[tSess[t]] /\ sConn[tSess[t]] = "open"

\* C12: once the host's timeout flag is true, the host worker and its share
\* sub-tasks start no further network operation towards the host: no step
\* taken with the flag set moves a thread into an operation that talks to
\* the peer.
C12_NoNetworkOpAfterFlag ==
    [][\A t \in Threads0 :
          (tFlag /\ tpc'[t] # tpc[t] /\ tpc'[t] \in NetPcs) => ~TalksToPeer(t)']_vars

\* worker.go 90-94: the goroutine that ranges over timeoutTicker.C exists
\* once the ticker was created; Ticker.Stop() does not close the channel, so
\* the range never ends
TickerTaskAlive == tTicker \in {"running", "stopped"}

\* C13: the periodic ForceCloseAll lasts only until the host worker exits:
\* once ProcessTarget has returned, no tick can invoke ForceCloseAll and the
\* task that re-invokes it has terminated, whenever the deadline fired.
C13_TickerEndsWithWorker ==
    tpc[0] = "returned" => (~ENABLED TTick /\ ~TickerTaskAlive)

\* the session is in state Closed: it reports not connected and holds no
\* socket
Closed(x) == ~sLive[x] /\ sConn[x] = "nil"

\* C14: when ForceClose returns, the session is Closed, from whatever state
\* it was called and whether or not another operation held the session
\* mutex.
C14_ForceCloseLeavesClosed ==
    [][(tpc[Closer] \in {"fIn", "fBusy"} /\ tpc'[Closer] = "fRet")
          => Closed(TheSession)']_vars

\* C15: Closed is terminal: once ForceClose or Close has run on the session
\* and it reports not connected, no later step makes it report connected
\* again, also not a Connect that was in flight when ForceClose ran.
C15_ClosedIsTerminal ==
    [][((tpc[Closer] = "fRet" \/ tpc[User] = "closed") /\ ~sLive[TheSession])
          => ~sLive'[TheSession]]_vars

\* the owner is in a call that talks to the peer: the Umount and Logoff of
\* Close, the Umount at the end of SetShare, the Mount, the directory read;
\* the mutex is the owner's unless ForceClose has it (position "fIn")
SessionInIO ==
    \/ tpc[User] = "clIn" /\ CloseTalks(TheSession)
    \/ tpc[User] \in {"ssUmount", "ssMount", "lcRead"} /\ sConn[TheSession] = "open"

\* C16: no operation of the session holds the session mutex while it
\* performs blocking network I/O, the graceful close included.
C16_NoMutexDuringIO ==
    SessionInIO => ~(sMu[TheSession] /\ tpc[Closer] # "fIn")

\* C17: the mutex of the connection pool is never held by a thread that is
\* executing a session operation that talks to the peer (connect, ping,
\* graceful close).
C17_NoPoolMutexDuringIO ==
    \A t \in Threads0 :
        (tpc[t] \in NetPcs \cup {"auth"} /\ TalksToPeer(t)) => poolMu # t

\* C18: a new session is in the in-use set of the pool during the whole of
\* its Connect, so that a concurrent ForceCloseAll reaches it, and when
\* Connect has failed the session is not in the in-use set once
\* GetConnection returns the error.
C18_InUseDuringConnect ==
    [][\A t \in Threads0 :
          /\ tpc'[t] \in {"dial", "auth"} => tSess'[t] \in activeConnections'
          /\ (tpc[t] = "connErr" /\ tpc'[t] # "connErr")
                 => tSess[t] \notin activeConnections']_vars

\* C19: after any interleaving of GetConnection, ReturnConnection, CloseAll
\* and ForceCloseAll the pool holds at most maxConnectionsPerHost idle
\* sessions for the host.
C19_IdleWithinCapacity == Len(connections) <= MaxWorkersPerHost

\* a session was handed back to a full pool and is being closed instead
C19_Witness ==
    \E t \in Threads0 :
        tpc[t] = "retCloseIO" /\ Len(connections) = MaxWorkersPerHost

\* C20: ForceClose never waits for the session mutex: its TryLock and the
\* one step that follows can always be taken, whoever holds the mutex and
\* for however long, and when the mutex was held by another operation the
\* socket is no longer open once ForceClose has returned.
C20_ForceCloseNeverWaits ==
    /\ [](IF tpc[Closer] \in {"fIdle", "fRet"}
          THEN ENABLED SForceCloseTry
          ELSE ENABLED (SForceCloseLocked \/ SForceCloseBusy))
    /\ [][(tpc[Closer] = "fBusy" /\ tpc'[Closer] = "fRet")
             => sConn'[TheSession] # "open"]_vars

\* ForceClose has returned while the owner holds the mutex inside a Close
\* that the peer does not answer, and the socket has been shut down
C20_Witness ==
    /\ tpc[Closer] = "fRet"
    /\ tpc[User] = "clIn"
    /\ tStall[User]
    /\ sMu[TheSession]
    /\ sConn[TheSession] = "dead"

\* C21: at every instant, a kill of the process inside a save included,
\* the file at the checkpoint path is absent or holds the complete content
\* written by one finished save.
C21_CheckpointFileNeverPartial ==
    ckPath.exists => ckPath.complete

\* the process was killed inside os.WriteFile, with a checkpoint of an
\* earlier save at the path
C21_Witness ==
    /\ mainPc = "crashed"
    /\ ckTmp.exists /\ ~ckTmp.complete
    /\ ckPath.exists /\ ckPath.processed # {}

\* C22: when Stop returns on an enabled manager, the task of Start has made
\* its final save and the file at the path holds every target that was
\* marked before Stop was called, whatever the interval.
C22_FinalSaveOnStop ==
    [][(mainPc = "stopping" /\ mainPc' = "stopped" /\ enabled)
          => /\ ckPc = "exited"
             /\ ckPath.exists
             /\ processedTargets \subseteq ckPath.processed]_vars

\* C23: TriggerSave can always be called and returns, whether a request is
\* pending or not, and at most one request is ever queued.
C23_TriggerCoalesces ==
    /\ saveChan <= 1
    /\ (mainPc = "scan" /\ ckCoalesced < MaxCoalesced) => ENABLED CkTrigger

\* several triggers found the request of an earlier one still pending
C23_Witness ==
    /\ ckCoalesced = MaxCoalesced
    /\ saveChan = 1

\* C24 as stated: after a kill and a restart with the same --checkpoint
\* flag, the scheduler skips exactly the targets of the saved processed set
\* and keeps every other input target.
C24_RestartSkipsSaved ==
    [][(mainPc = "filter" /\ mainPc' = "start" /\ ckRuns > 0)
          => TargetsOf(targetsToProcess') = Targets \ ckPath.processed]_vars

\* C24, amended: the same when the restart also carries --resume.
C24_ResumeSkipsSaved ==
    [][(mainPc = "filter" /\ mainPc' = "start" /\ ckRuns > 0 /\ ckResume)
          => TargetsOf(targetsToProcess') = Targets \ ckPath.processed]_vars

\* a restart with --resume has skipped a saved target and kept another
C24_Witness ==
    /\ ckRuns > 0
    /\ ckResume
    /\ mainPc = "start"
    /\ ckPath.processed # {}
    /\ targetsToProcess # <<>>
    /\ TargetsOf(targetsToProcess) = Targets \ ckPath.processed

\* the number of lines of the file that carry the id
CountOf(id, file) == Cardinality({i \in 1..Len(file) : file[i] = id})

\* C25: after the export, whatever calls of AddNode, AddEdge and
\* RestoreNodesAndEdges came before, the nodes array has as many elements
\* as the node-id set and the edges array as many as the edge counter.
C25_ArtifactMatchesCounts ==
    [][(~stArtifact.written /\ stArtifact'.written)
          => /\ Len(stArtifact'.nodes) = Cardinality(stIDs')
             /\ Len(stArtifact'.edges) = stEdgeCount']_vars

\* C26: a call of AddNode with an id the store holds changes nothing, a
\* call with a new id writes exactly one record of that id, and this for
\* callers that run concurrently as well as one after another; a node file
\* without a repeated id stays so.
C26_AddNodeWritesIdOnce ==
    [][\A w \in StCallers :
          (stPc[w] \in {"anDup", "anInsert"} /\ stPc'[w] = "idle")
              => /\ stArg[w] \in stIDs => (stNodeFile' = stNodeFile /\ stIDs' = stIDs)
                 /\ stArg[w] \notin stIDs
                        => /\ stNodeFile' = Append(stNodeFile, stArg[w])
                           /\ CountOf(stArg[w], stNodeFile') = 1
                 /\ (\A id \in StIds : CountOf(id, stNodeFile) <= 1)
                        => (\A id \in StIds : CountOf(id, stNodeFile') <= 1)]_vars

\* a caller has found the id written by another while a third call with
\* the same id waits for the mutex
C26_Witness ==
    \E v, w \in StCallers :
        /\ v # w
        /\ stPc[v] = "anDup"
        /\ stPc[w] = "anLock"
        /\ stArg[v] = stArg[w]
        /\ CountOf(stArg[v], stNodeFile) = 1

\* an edge built from an ACE: its kind comes from a rights table
FromAce(e) == e.kind \in (DOMAIN ShareRightsMapping) \cup (DOMAIN NTFSRightsMapping)

\* the edge with its kind hidden when it comes from an ACE
HideAceKind(e) == IF FromAce(e) THEN [e EXCEPT !.kind = "ace"] ELSE e

\* two documents agree up to the order of the edges of one ACE: the same
\* nodes in the same order, at every position of the edges the same edge
\* or two edges of the same trustee and element, and the same edges in all
DocsAgree(a, b) ==
    /\ rnNodes[a] = rnNodes[b]
    /\ Len(rnEdges[a]) = Len(rnEdges[b])
    /\ \A i \in 1..Len(rnEdges[a]) : HideAceKind(rnEdges[a][i]) = HideAceKind(rnEdges[b][i])
    /\ {rnEdges[a][i] : i \in 1..Len(rnEdges[a])} = {rnEdges[b][i] : i \in 1..Len(rnEdges[b])}

\* C27: two runs on the same input end with the same graph document, up to
\* the relative order of the edges that come from the same ACE.
C27_RunsAgree ==
    \A a, b \in Runs : (rnPc[a] = "done" /\ rnPc[b] = "done") => DocsAgree(a, b)

\* the decision just taken is an EXPLORATION decision of the program of
\* TestEvaluatorComplexRules at depth 3
ComplexExplorationAtDepth3 ==
    /\ ruRules = ComplexRules
    /\ ruOut # "none"
    /\ ruScope = "EXPLORATION"
    /\ ruCtx.Depth = 3

\* C28: with the program DEFAULT: DENY / ALLOW EXPLORATION IF SHARE.NAME =
\* 'public' / ALLOW PROCESSING IF FILE.SIZE < 1000000 / DENY EXPLORATION IF
\* DEPTH > 2, an EXPLORATION decision inside share public at depth 3 is DENY.
C28_PublicDepth3Denied ==
    (ComplexExplorationAtDepth3 /\ ruCtx.Share = RuleObject("public", 0))
        => ruOut = "DENY"

\* C28 as the evaluator decides it: inside share public the ALLOW rule comes
\* first and the decision at depth 3 is ALLOW; the decision at depth 3 is DENY
\* in a share whose name is not public.
C28_PublicDepth3Allowed ==
    /\ (ComplexExplorationAtDepth3 /\ ruCtx.Share = RuleObject("public", 0))
           => ruOut = "ALLOW"
    /\ (ComplexExplorationAtDepth3 /\ ruCtx.Share = RuleObject("private", 0))
           => ruOut = "DENY"

C28_Witness ==
    /\ ComplexExplorationAtDepth3
    /\ ruCtx.Share = RuleObject("public", 0)
    /\ ruCtx.Directory.present
    /\ ruOut = "ALLOW"

\* the rules of the program that are not DEFAULT rules, whose scope is unset
\* or the requested one and whose predicate is true in the context
Matching(rules, scope, ctx) ==
    {i \in 1..Len(rules) :
        /\ ~rules[i].IsDefault
        /\ rules[i].Scope \in {"", scope}
        /\ Evaluate(rules[i].Condition, ctx)}

DefaultsOf(rules) == {i \in 1..Len(rules) : rules[i].IsDefault}

First(S) == CHOOSE i \in S : \A j \in S : i <= j

decide(rules, scope, ctx) ==
    IF Matching(rules, scope, ctx) # {}
    THEN rules[First(Matching(rules, scope, ctx))].Action
    ELSE IF DefaultsOf(rules) # {} THEN rules[First(DefaultsOf(rules))].DefaultBehavior
    ELSE "ALLOW"

Numeric(v) == v.t \in {"int", "float64"}

\* C30: an ordered comparison (<, >, <=, >=) is false whenever the field
\* value or the literal is not numeric.
C30_OrderedNeedsNumbers ==
    \A i \in 1..Len(ruRules) :
        LET c == ruRules[i].Condition
        IN (/\ c.op = "field"
            /\ c.Comparator \in {"<", ">", "<=", ">="}
            /\ \/ ~Numeric(GetFieldValue(ruCtx, c.Field))
               \/ ~Numeric(c.Value))
               => ~Evaluate(c, ruCtx)

\* the field is none the context carries: an unknown name, or a field of a
\* share, file or directory fact that is absent
FieldMissing(ctx, field) ==
    \/ field \notin {"DEPTH", "SHARE.NAME", "FILE.NAME", "FILE.SIZE", "DIR.NAME"}
    \/ field = "SHARE.NAME" /\ ~ctx.Share.present
    \/ field \in {"FILE.NAME", "FILE.SIZE"} /\ ~ctx.File.present
    \/ field = "DIR.NAME" /\ ~ctx.Directory.present

\* C31: on a field the context does not carry, every =, <, >, <=, >= and IN
\* comparison is false and every NOT IN comparison is true, for every
\* right-hand literal.
C31_MissingFieldCollapses ==
    \A i \in 1..Len(ruRules) :
        LET c == ruRules[i].Condition
        IN (c.op = "field" /\ FieldMissing(ruCtx, c.Field))
              => /\ c.Comparator \in {"=", "<", ">", "<=", ">=", "IN"} => ~Evaluate(c, ruCtx)
                 /\ c.Comparator = "NOT IN" => Evaluate(c, ruCtx)

\* the context a decision may depend on: the share, the depth and the entry
FactsOf(ctx, file, dir) ==
    [NewContext EXCEPT !.Share = ctx.Share, !.Depth = ctx.Depth,
                       !.File = file, !.Directory = dir]

\* C37: the decision for a directory or a file depends only on the program,
\* the share, that entry and the depth, not on the entries the evaluator was
\* asked about before.
C37_DecisionIgnoresSiblings ==
    [][/\ \A dir \in RuDirs :
            /\ RuCanExploreDir(dir)
                  => ruOut' = evaluate("EXPLORATION", FactsOf(ruCtx, NoObject, dir))
            /\ RuCanProcessDir(dir)
                  => ruOut' = evaluate("PROCESSING", FactsOf(ruCtx, NoObject, dir))
       /\ \A file \in RuFiles :
            RuCanProcessFile(file)
                  => ruOut' = evaluate("PROCESSING", FactsOf(ruCtx, file, NoObject))]_vars

\* C38: for DEPTH and FILE.SIZE compared with an integer literal k, the
\* comparisons =, !=, <= and >= agree with integer arithmetic.
C38_IntegerComparisons ==
    \A i \in 1..Len(ruRules) :
        LET c == ruRules[i].Condition
            v == GetFieldValue(ruCtx, c.Field)
        IN (/\ c.op = "field"
            /\ c.Field \in {"DEPTH", "FILE.SIZE"}
            /\ c.Value.t = "float64"
            /\ v.t = "int")
              => /\ c.Comparator = "=" => (Evaluate(c, ruCtx) <=> v.n = c.Value.n)
                 /\ c.Comparator = "!=" => (Evaluate(c, ruCtx) <=> v.n # c.Value.n)
                 /\ c.Comparator = "<=" => (Evaluate(c, ruCtx) <=> v.n <= c.Value.n)
                 /\ c.Comparator = ">=" => (Evaluate(c, ruCtx) <=> v.n >= c.Value.n)

\* the host workers that run: launched by the scheduler and not yet past
\* the release of their slot
RunningHosts == {t \in Targets : wpc[t] \notin {"idle", "exited"}}

\* C32: at every moment the number of host workers running concurrently is
\* at most the configured threads value.
C32_HostWorkersWithinThreads == Cardinality(RunningHosts) <= threads

C32_Witness ==
    /\ schedPc = "loop"
    /\ idx <= Len(targetsToProcess)
    /\ Cardinality(RunningHosts) = threads
    /\ \E t \in Targets : wpc[t] = "idle"

\* the share sub-tasks of a host past the per-host gate and not finished
PastGate(t) == {s \in ShareIds : spc[t][s] \in {"acquired", "running"}}

\* C33: at every moment, for each host, the number of its share sub-tasks
\* that have passed the per-host gate and not yet finished is at most
\* max_workers_per_host.
C33_SubTasksWithinPerHostGate ==
    \A t \in Targets : Cardinality(PastGate(t)) <= MaxWorkersPerHost

C33_Witness ==
    \E t \in Targets :
        /\ Cardinality(PastGate(t)) = MaxWorkersPerHost
        /\ \E s \in ShareIds : spc[t][s] = "running"
        /\ \E s \in ShareIds : spc[t][s] = "waiting"

RECURSIVE SumOver(_, _)
SumOver(S, f) ==
    IF S = {} THEN 0
    ELSE LET x == CHOOSE y \in S : TRUE IN f[x] + SumOver(S \ {x}, f)

\* C34: the total number of share workers running at the same time across
\* all hosts never exceeds the --global-max-workers value.
C34_ShareWorkersWithinGlobalMax ==
    SumOver(Targets, [t \in Targets |-> Cardinality(PastGate(t))]) <= GlobalMaxWorkers

\* the records of a checkpoint
RecordsOf(cp) == cp.nodes \cup cp.edges

\* C36: in every saved checkpoint each target of the processed set has its
\* complete graph contribution: every node and edge its host worker emitted
\* is among the nodes and edges of that checkpoint.
C36_CheckpointHoldsProcessedTargets ==
    [][svFile' # svFile
          => \A t \in svFile'.processed : snEmitted[t] \subseteq RecordsOf(svFile')]_vars

C36_Witness ==
    /\ svFile.exists
    /\ \E t \in svFile.processed : Cardinality(snEmitted[t]) = MaxEmits
    /\ \E u \in Targets :
         /\ u \notin svFile.processed
         /\ snPc[u] = "run"
         /\ snEmitted[u] # {}
         /\ ~(snEmitted[u] \subseteq RecordsOf(svFile))

\* the entry name the filename asks for: the base without its four last
\* characters, with .json appended unless it ends in .json already
EntryNameFor(filename) ==
    LET rest == SubSeq(Base(filename), 1, Len(Base(filename)) - 4)
    IN IF HasSuffix(rest, DotJson) THEN rest ELSE rest \o DotJson

\* C35: for a filename whose extension is .zip in any letter case, the
\* archive holds exactly one entry, named as the base of the filename with
\* the .zip extension removed and .json appended unless the remainder ends
\* in .json.
C35_ZipEntryName ==
    (exPc = "done" /\ HasSuffix(ToLower(exFilename), DotZip))
        => /\ exZip
           /\ Len(exEntries) = 1
           /\ exEntries[1] = EntryNameFor(exFilename)

(***************************************************************************)
(* TraverseSpec: one host worker, its share sub-tasks and the recursive    *)
(* traversal of each share, with the counters they keep.                   *)
(***************************************************************************)
traverseIdleVars == <<schedVars, cpVars, workerVars, rightsVars, graphVars,
                      timeoutVars, ckVars, storeVars, runVars, rulesVars,
                      snapVars, exportVars>>

\* the frame on top of the stack of a share
TopFrame(s) == trStack[s][Len(trStack[s])]

SetTopFrame(s, frame) ==
    [trStack EXCEPT ![s] = [@ EXCEPT ![Len(@)] = frame]]

PopFrame(s) ==
    [trStack EXCEPT ![s] = SubSeq(@, 1, Len(@) - 1)]

\* worker.go 80-81: the timer of the host fires
TrTimeoutFires ==
    /\ HostTimeout > 0
    /\ trHost \in {"start", "wait"}
    /\ ~trTimeout
    /\ trTimeout' = TRUE
    /\ UNCHANGED <<traverseIdleVars, trInput, trHost, trSem, trPc, trStack,
                   trDepth, trRet, trTotals, trResults, trFlushed>>

\* worker.go 120-158: the timeout is seen before the shares are listed
TrReturnEarly ==
    /\ trHost = "start"
    /\ trTimeout
    /\ trHost' = "returned"
    /\ UNCHANGED <<traverseIdleVars, trInput, trTimeout, trSem, trPc, trStack,
                   trDepth, trRet, trTotals, trResults, trFlushed>>

\* worker.go 160-192: the shares are listed and the task counters raised
TrListShares ==
    /\ trHost = "start"
    /\ LET n == trInput.shares
           r == [trResults EXCEPT !.TasksTotal = @ + n,
                                  !.TasksPending = @ + n,
                                  !.SharesPending = @ + n]
       IN IF n = 0
          THEN /\ trResults' = [r EXCEPT !.Success = @ + 1,
                                         !.TasksTotal = @ + 1,
                                         !.TasksFinished = @ + 1]
               /\ trHost' = "returned"
               /\ UNCHANGED trPc
          ELSE /\ trResults' = r
               /\ trHost' = "wait"
               /\ trPc' = [s \in TrShares |->
                              IF s <= n THEN "waiting" ELSE "none"]
    /\ UNCHANGED <<traverseIdleVars, trInput, trTimeout, trSem, trStack,
                   trDepth, trRet, trTotals, trFlushed>>

\* worker.go 239, 247: hostSem.Acquire succeeds
TrAcquire(s) ==
    /\ trPc[s] = "waiting"
    /\ trSem < MaxWorkersPerHost
    /\ trSem' = trSem + 1
    /\ trPc' = [trPc EXCEPT ![s] = "acquired"]
    /\ UNCHANGED <<traverseIdleVars, trInput, trHost, trTimeout, trStack,
                   trDepth, trRet, trTotals, trResults, trFlushed>>

\* worker.go 209-221, 239-246: the timeout cancelled the acquisition
TrAcquireCancelled(s) ==
    /\ trPc[s] = "waiting"
    /\ trTimeout
    /\ trResults' = [trResults EXCEPT !.TasksPending = @ - 1,
                                      !.TasksFinished = @ + 1]
    /\ trPc' = [trPc EXCEPT ![s] = "done"]
    /\ UNCHANGED <<traverseIdleVars, trInput, trHost, trTimeout, trSem,
                   trStack, trDepth, trRet, trTotals, trFlushed>>

\* worker.go 249-257: the timeout check after the acquisition
TrCheckTimeout(s) ==
    /\ trPc[s] = "acquired"
    /\ IF trTimeout
       THEN /\ trResults' = [trResults EXCEPT !.TasksPending = @ - 1,
                                              !.TasksFinished = @ + 1]
            /\ trTotals' = [trTotals EXCEPT !.skippedSharesCount = @ + 1]
            /\ trSem' = trSem - 1
            /\ trPc' = [trPc EXCEPT ![s] = "done"]
       ELSE /\ trPc' = [trPc EXCEPT ![s] = "share"]
            /\ UNCHANGED <<trResults, trTotals, trSem>>
    /\ UNCHANGED <<traverseIdleVars, trInput, trHost, trTimeout, trStack,
                   trDepth, trRet, trFlushed>>

\* worker.go 306-409: processShare up to the call of CollectContentsInShare;
\* it returns empty counts on a timeout, when the rules do not let the share
\* be explored and when the connection or the share cannot be had
TrProcessShare(s) ==
    /\ trPc[s] = "share"
    /\ \E ok \in BOOLEAN :
          IF trTimeout \/ ~ok
          THEN /\ trRet' = [trRet EXCEPT ![s] = ZeroCounts]
               /\ trPc' = [trPc EXCEPT ![s] = "ret"]
               /\ UNCHANGED trDepth
          ELSE /\ trDepth' = [trDepth EXCEPT ![s] = 0]
               /\ trPc' = [trPc EXCEPT ![s] = "call"]
               /\ UNCHANGED trRet
    /\ UNCHANGED <<traverseIdleVars, trInput, trHost, trTimeout, trSem,
                   trStack, trTotals, trResults, trFlushed>>

\* contents.go 106-156: the entry of collectContentsAtDepth
TrCall(s) ==
    /\ trPc[s] = "call"
    /\ \E listed \in BOOLEAN :
          IF \/ trTimeout
             \/ (trInput.maxDepth > 0 /\ trDepth[s] >= trInput.maxDepth)
             \/ ~listed
          THEN /\ trRet' = [trRet EXCEPT ![s] = ZeroCounts]
               /\ trPc' = [trPc EXCEPT ![s] = "ret"]
               /\ UNCHANGED trStack
          ELSE /\ trStack' = [trStack EXCEPT ![s] = Append(@,
                     [depth |-> trDepth[s],
                      todo |-> ListContents(trInput, trDepth[s]),
                      dirsToExplore |-> 0,
                      counts |-> ZeroCounts])]
               /\ trPc' = [trPc EXCEPT ![s] = "scan"]
               /\ UNCHANGED trRet
    /\ UNCHANGED <<traverseIdleVars, trInput, trHost, trTimeout, trSem,
                   trDepth, trTotals, trResults, trFlushed>>

\* contents.go 185-243: one directory entry
ScanDirectory(s, f) ==
    IF ~trInput.exploreDir
    THEN /\ trStack' = SetTopFrame(s, [f EXCEPT
                !.counts.SkippedDirectories = @ + 1])
         /\ UNCHANGED <<trResults, trFlushed>>
    ELSE IF trInput.processDir
    THEN /\ trStack' = SetTopFrame(s, [f EXCEPT
                !.counts.TotalDirectories = @ + 1,
                !.counts.ProcessedDirectories = @ + 1,
                !.dirsToExplore = @ + 1])
         /\ trResults' = [trResults EXCEPT
                !.DirectoriesPending = (@ + 1) - 1]
         /\ trFlushed' = [trFlushed EXCEPT !.dirs = @ + 1]
    ELSE /\ trStack' = SetTopFrame(s, [f EXCEPT
                !.counts.TotalDirectories = @ + 1,
                !.dirsToExplore = @ + 1])
         /\ trResults' = [trResults EXCEPT !.DirectoriesPending = @ + 1]
         /\ UNCHANGED trFlushed

\* contents.go 244-303: one file entry; the rules are asked twice about the
\* same file in the same context
ScanFile(s, f) ==
    IF ~trInput.processFile
    THEN /\ trStack' = SetTopFrame(s, [f EXCEPT !.counts.SkippedFiles = @ + 1])
         /\ UNCHANGED <<trResults, trFlushed>>
    ELSE IF trInput.processFile
    THEN /\ trStack' = SetTopFrame(s, [f EXCEPT
                !.counts.TotalFiles = @ + 1,
                !.counts.ProcessedFiles = @ + 1])
         /\ trResults' = [trResults EXCEPT !.FilesPending = (@ + 1) - 1]
         /\ trFlushed' = [trFlushed EXCEPT !.files = @ + 1]
    ELSE /\ trStack' = SetTopFrame(s, [f EXCEPT !.counts.TotalFiles = @ + 1])
         /\ trResults' = [trResults EXCEPT !.FilesPending = @ + 1]
         /\ UNCHANGED trFlushed

\* contents.go 158-306: one turn of the loop over the listed entries
TrScan(s) ==
    /\ trPc[s] = "scan"
    /\ IF TopFrame(s).todo = {} \/ trTimeout
       THEN /\ trPc' = [trPc EXCEPT ![s] = "explore"]
            /\ UNCHANGED <<trStack, trResults, trFlushed>>
       ELSE /\ \E e \in TopFrame(s).todo :
                 LET f == [TopFrame(s) EXCEPT !.todo = @ \ {e}]
                 IN IF e = "dir" THEN ScanDirectory(s, f) ELSE ScanFile(s, f)
            /\ UNCHANGED trPc
    /\ UNCHANGED <<traverseIdleVars, trInput, trHost, trTimeout, trSem,
                   trDepth, trRet, trTotals>>

\* contents.go 309-330, 350: the next directory is entered, or the call
\* returns its counts
TrExplore(s) ==
    /\ trPc[s] = "explore"
    /\ IF TopFrame(s).dirsToExplore = 0 \/ trTimeout
       THEN /\ trRet' = [trRet EXCEPT ![s] = TopFrame(s).counts]
            /\ trStack' = PopFrame(s)
            /\ trPc' = [trPc EXCEPT ![s] = "ret"]
            /\ UNCHANGED trDepth
       ELSE /\ trStack' = SetTopFrame(s, [TopFrame(s) EXCEPT !.dirsToExplore = @ - 1])
            /\ trDepth' = [trDepth EXCEPT ![s] = TopFrame(s).depth + 1]
            /\ trPc' = [trPc EXCEPT ![s] = "call"]
            /\ UNCHANGED trRet
    /\ UNCHANGED <<traverseIdleVars, trInput, trHost, trTimeout, trSem,
                   trTotals, trResults, trFlushed>>

\* contents.go 332-347: the caller takes the counts of the sub-directory
TrReturn(s) ==
    /\ trPc[s] = "ret"
    /\ trStack[s] # <<>>
    /\ LET subCounts == trRet[s]
       IN /\ trStack' = SetTopFrame(s, [TopFrame(s) EXCEPT
                 !.counts = Add(@, subCounts)])
          /\ trResults' = [trResults EXCEPT
                 !.FilesTotal = @ + subCounts.TotalFiles,
                 !.FilesSkipped = @ + subCounts.SkippedFiles,
                 !.FilesProcessed = @ + subCounts.ProcessedFiles,
                 !.DirectoriesTotal = @ + subCounts.TotalDirectories,
                 !.DirectoriesSkipped = @ + subCounts.SkippedDirectories,
                 !.DirectoriesProcessed = @ + subCounts.ProcessedDirectories,
                 !.DirectoriesPending = @ - 1]
    /\ trPc' = [trPc EXCEPT ![s] = "explore"]
    /\ UNCHANGED <<traverseIdleVars, trInput, trHost, trTimeout, trSem,
                   trDepth, trRet, trTotals, trFlushed>>

\* worker.go 260-277: the sub-task adds the counts of its share
TrShareDone(s) ==
    /\ trPc[s] = "ret"
    /\ trStack[s] = <<>>
    /\ trTotals' = [trTotals EXCEPT !.totalShareCount = @ + 1,
                                    !.counts = Add(@, trRet[s])]
    /\ trResults' = [trResults EXCEPT !.TasksPending = @ - 1,
                                      !.TasksFinished = @ + 1]
    /\ trSem' = trSem - 1
    /\ trPc' = [trPc EXCEPT ![s] = "done"]
    /\ UNCHANGED <<traverseIdleVars, trInput, trHost, trTimeout, trStack,
                   trDepth, trRet, trFlushed>>

\* worker.go 281-299: every sub-task is over, the totals are added
TrJoin ==
    /\ trHost = "wait"
    /\ \A s \in TrShares : trPc[s] \in {"none", "done"}
    /\ LET t == trTotals
           c == trTotals.counts
       IN trResults' = [trResults EXCEPT
              !.SharesTotal = @ + t.totalShareCount + t.skippedSharesCount,
              !.SharesProcessed = @ + t.totalShareCount,
              !.SharesSkipped = @ + t.skippedSharesCount,
              !.SharesPending =
                  @ - (t.totalShareCount + t.skippedSharesCount),
              !.FilesTotal = @ + c.TotalFiles + c.SkippedFiles,
              !.FilesProcessed = @ + c.ProcessedFiles,
              !.FilesSkipped = @ + c.SkippedFiles,
              !.DirectoriesTotal =
                  @ + c.TotalDirectories + c.SkippedDirectories,
              !.DirectoriesProcessed = @ + c.ProcessedDirectories,
              !.DirectoriesSkipped = @ + c.SkippedDirectories,
              !.Success = @ + 1,
              !.TasksFinished = @ + 1]
    /\ trHost' = "returned"
    /\ UNCHANGED <<traverseIdleVars, trInput, trTimeout, trSem, trPc,
                   trStack, trDepth, trRet, trTotals, trFlushed>>

TraverseInit ==
    /\ SchedInit
    /\ WorkerInit
    /\ RightsIdle
    /\ ExportIdle
    /\ SnapIdle
    /\ RulesIdle
    /\ RunsIdle
    /\ StoreIdle
    /\ CkIdle
    /\ GraphIdle
    /\ TimeoutIdle
    /\ enabled = FALSE
    /\ processedTargets = {}
    /\ saveChan = 0
    /\ trInput \in TrInputs
    /\ trHost = "start"
    /\ trTimeout = FALSE
    /\ trSem = 0
    /\ trPc = [s \in TrShares |-> "none"]
    /\ trStack = [s \in TrShares |-> <<>>]
    /\ trDepth = [s \in TrShares |-> 0]
    /\ trRet = [s \in TrShares |-> ZeroCounts]
    /\ trTotals = ZeroTotals
    /\ trResults = ZeroResults
    /\ trFlushed = [files |-> 0, dirs |-> 0]

TraverseNext ==
    \/ TrTimeoutFires
    \/ TrReturnEarly
    \/ TrListShares
    \/ \E s \in TrShares : TrAcquire(s)
    \/ \E s \in TrShares : TrAcquireCancelled(s)
    \/ \E s \in TrShares : TrCheckTimeout(s)
    \/ \E s \in TrShares : TrProcessShare(s)
    \/ \E s \in TrShares : TrCall(s)
    \/ \E s \in TrShares : TrScan(s)
    \/ \E s \in TrShares : TrExplore(s)
    \/ \E s \in TrShares : TrReturn(s)
    \/ \E s \in TrShares : TrShareDone(s)
    \/ TrJoin

TraverseSpec == TraverseInit /\ [][TraverseNext]_vars

\* C39: when the host worker has returned, files_processed and
\* directories_processed equal the numbers of files and of directories that
\* were added to the graph for the host, whatever their nesting depth.
C39_EachEntryCountedOnce ==
    trHost = "returned"
        => /\ trResults.FilesProcessed = trFlushed.files
           /\ trResults.DirectoriesProcessed = trFlushed.dirs

\* C40: tasks pending, shares pending, directories pending and files pending
\* are never negative, and each is zero once the host worker has returned,
\* a worker that ended by host timeout included.
C40_PendingCountersBalance ==
    /\ trResults.TasksPending >= 0
    /\ trResults.SharesPending >= 0
    /\ trResults.DirectoriesPending >= 0
    /\ trResults.FilesPending >= 0
    /\ trHost = "returned"
           => /\ trResults.TasksPending = 0
              /\ trResults.SharesPending = 0
              /\ trResults.DirectoriesPending = 0
              /\ trResults.FilesPending = 0

====
